---------------------------- MODULE Spec2Model ----------------------------
(***************************************************************************)
(* A model of scripts/build.mjs, the build pipeline of the landing page.   *)
(*                                                                         *)
(* Text is modelled as a sequence of lexical items: the units the regular  *)
(* expressions of build.mjs recognise (a tag, an <img> with its attribute  *)
(* text and its quoted src, a run of plain text).  A path is a sequence of *)
(* segments ("/", "images/", "hero", ".jpg"), an attribute a record of its *)
(* name and value.  String.replace, startsWith, endsWith, path.extname and *)
(* the regular expressions are operators on these sequences.               *)
(***************************************************************************)
EXTENDS Naturals, Sequences, FiniteSets, TLC

VARIABLES
    \* ---- processImages(html, dimensions, basePath, spImages) ----
    html0,          \* the html argument as passed
    dimensions,     \* Image Dimension Table: sequence of [key, width, height] in key order
    basePath,       \* path prefix argument
    spImages,       \* SP-Image Set
    html,           \* the local html, reassigned by each pass
    pictureBlocks,  \* the protected <picture> blocks
    origin,         \* for each item of the protected html, its position in html0
    calls,          \* one record per invocation of the <img> replace callback
    ipc,            \* position inside processImages
    \* ---- the configuration and the tag generators ----
    config,         \* the configuration map env (loadEnv)
    genHtml,        \* the html handed to generateStructuredData
    genOut,         \* what the generator returned
    gpc,            \* which generator has run
    \* ---- build() ----
    bpc,            \* position inside build(): the step that runs next
    srcTree,        \* the source tree: index.html, images/, favicon.png, .htaccess, ...
    buildDir,       \* the output directory: the names of its entries
    buildBasePath,  \* const basePath of build()
    buildSpImages,  \* let spImages of build()
    faviconTags,    \* let faviconTags of build()
    assembly,       \* the values of the HTML stage: fragments and assembled html
    conversionCode, \* the string generateConversionCode returned to optimizeJs
    started,        \* the steps of build() in the order they were started
    faults,         \* the steps that threw
    log,            \* console output, one notice per entry
    exitCode,       \* exit status of the process
    \* ---- the generated script in a page ----
    ppc,            \* whether a page has loaded the script
    script,         \* the conversion code the page runs
    scrollTracked,  \* var scrollTracked: the points that are set
    timeTracked,    \* var timeTracked: the keys that are set
    gtagIsFunction, \* typeof gtag === 'function'
    clock,          \* Math.floor((Date.now() - startTime) / 1000) at the last tick
    inputs,         \* the scroll events and timer ticks handled so far
    sent,           \* the events handed to gtag, in order
    \* ---- findSpImages(dir) ----
    scanTree,       \* the directory tree below dir: what readdir returns for each directory
    scanStack,      \* the active calls of scan(currentDir), innermost first
    scanSet,        \* const spImages = new Set()
    spc             \* position inside findSpImages

imgVars == <<html0, dimensions, basePath, spImages, html, pictureBlocks, origin, calls, ipc>>
genVars == <<genHtml, genOut, gpc>>
buildVars == <<bpc, srcTree, buildDir, buildBasePath, buildSpImages, faviconTags, assembly,
               conversionCode, started, faults, log, exitCode>>
pageVars == <<ppc, script, scrollTracked, timeTracked, gtagIsFunction, clock, inputs, sent>>
scanVars == <<scanTree, scanStack, scanSet, spc>>
vars == <<config, imgVars, genVars, buildVars, pageVars, scanVars>>

----------------------------------------------------------------------------
(* Bounds of the model *)

\* number of segments (text run, <img>, <picture> block) of an input document
MaxSegs == 3
\* number of scroll events and timer ticks of a page-load
MaxEvents == 4
\* seconds a page stays open
MaxElapsed == 3
\* number of disclosure blocks of a document handed to generateStructuredData
MaxFaqBlocks == 2

----------------------------------------------------------------------------
(* Lexical items *)

Txt(s) == [k |-> "txt", s |-> s]
Tag(s) == [k |-> "tag", s |-> s]
Attr(n, v) == [name |-> n, val |-> v]
\* <img{before}src="{src}"{after}>
Img(before, src, after) == [k |-> "img", before |-> before, src |-> src, after |-> after]
\* <source media=".." srcset=".." type="..">   ("" : the attribute is not written)
Source(media, srcset, type) == [k |-> "source", media |-> media, srcset |-> srcset, type |-> type]

PicOpen == Tag("<picture>")
PicClose == Tag("</picture>")
\* the "\n  " / "\n" between the tags of an emitted <picture> template
Ws == Txt("\n")

\* the concatenation of the sequences ss[1], ..., ss[Len(ss)]
RECURSIVE FlattenRange(_, _, _)
FlattenRange(ss, lo, hi) ==
    IF lo > hi THEN <<>>
    ELSE IF lo = hi THEN ss[lo]
    ELSE LET mid == (lo + hi) \div 2
         IN FlattenRange(ss, lo, mid) \o FlattenRange(ss, mid + 1, hi)
Flatten(ss) == FlattenRange(ss, 1, Len(ss))

\* String.prototype.startsWith / endsWith on segment sequences
StartsWith(s, seg) == s # <<>> /\ Head(s) = seg
EndsWith(s, t) == Len(t) <= Len(s) /\ SubSeq(s, Len(s) - Len(t) + 1, Len(s)) = t

SetMin(S) == CHOOSE x \in S : \A y \in S : x <= y

\* first index of item x in sequence h, 0 when absent (String.indexOf)
IndexOf(h, x) ==
    IF \E i \in DOMAIN h : h[i] = x
    THEN CHOOSE i \in DOMAIN h : h[i] = x /\ \A j \in 1..(i - 1) : h[j] # x
    ELSE 0


\* the grave accent character (U+0060)
Grave == "U+0060"

\* String.prototype.replace(pattern, replacement) with a STRING replacement:
\* the patterns $$, $&, $ grave and $' of the replacement text are expanded.
\* In a character sequence cs the pattern starts at i when cs[i] is a "$" that
\* no earlier pattern has consumed and cs[i+1] is "$", "&", the grave accent
\* or the apostrophe.
RunStart(cs, i) == SetMin({j \in 1..i : \A n \in j..i : cs[n] = "$"})
IsPatternStart(cs, i) ==
    /\ cs[i] = "$"
    /\ i < Len(cs)
    /\ cs[i + 1] \in {"$", "&", Grave, "'"}
    /\ (i - RunStart(cs, i)) % 2 = 0

ExpandChars(cs, matched, pre, post) ==
    Flatten([i \in DOMAIN cs |->
        IF IsPatternStart(cs, i)
        THEN CASE cs[i + 1] = "$" -> <<"$">>
               [] cs[i + 1] = "&" -> matched
               [] cs[i + 1] = Grave -> pre
               [] OTHER -> post
        ELSE IF i > 1 /\ IsPatternStart(cs, i - 1) THEN <<>>
        ELSE <<cs[i]>>])

\* the characters of a run of items, a tag or a text run being one token
AsChars(items) ==
    Flatten([i \in DOMAIN items |->
        IF items[i].k \in {"txt", "tag"} THEN <<items[i].s>>
        ELSE <<"<" \o items[i].k \o ">">>])

\* the patterns inside the text of one item of the replacement
ExpandItem(x, matched, pre, post) ==
    LET E(cs) == ExpandChars(cs, AsChars(matched), AsChars(pre), AsChars(post)) IN
    CASE x.k = "meta" -> [x EXCEPT !.content = E(@)]
      [] x.k = "title" -> [x EXCEPT !.content = E(@)]
      [] x.k = "ldjson" -> [x EXCEPT !.payload = E(@)]
      [] x.k = "script" -> [x EXCEPT !.ids = [i \in DOMAIN @ |-> E(@[i])]]
      [] x.k = "link" -> [x EXCEPT !.href = E(@)]
      [] x.k = "img" -> [x EXCEPT !.src = E(@)]
      [] OTHER -> x

ExpandReplacement(repl, matched, pre, post) ==
    Flatten([i \in DOMAIN repl |->
        IF repl[i] = Txt("$$") THEN <<Txt("$")>>
        ELSE IF repl[i] = Txt("$&") THEN matched
        ELSE IF repl[i] = Txt("$" \o Grave) THEN pre
        ELSE IF repl[i] = Txt("$'") THEN post
        ELSE <<ExpandItem(repl[i], matched, pre, post)>>])

\* h.replace(pat, repl) for a string pattern pat (one item): the first
\* occurrence only, the replacement expanded as above.
StringReplace(h, pat, repl) ==
    LET i == IndexOf(h, pat) IN
    IF i = 0 THEN h
    ELSE LET pre == SubSeq(h, 1, i - 1)
             post == SubSeq(h, i + 1, Len(h))
         IN pre \o ExpandReplacement(repl, <<pat>>, pre, post) \o post

----------------------------------------------------------------------------
(* processImages, pass 1: protect the pre-existing <picture> blocks *)

\* `__PICTURE_PLACEHOLDER_${i}__`
PicturePlaceholder(i) == Txt("__PICTURE_PLACEHOLDER_" \o ToString(i) \o "__")

\* the n-th smallest element of a set of positions
Nth(S, n) == CHOOSE i \in S : Cardinality({j \in S : j <= i}) = n
\* the elements of a set of positions in increasing order
Sorted(S) == [n \in 1..Cardinality(S) |-> Nth(S, n)]

\* the matches of /<picture[\s\S]*?<\/picture>/gi at or after position i, left to
\* right: each <picture up to the nearest following </picture>
RECURSIVE PictureMatches(_, _)
PictureMatches(h, i) ==
    LET opens == {a \in i..Len(h) :
                     h[a] = PicOpen /\ \E b \in (a + 1)..Len(h) : h[b] = PicClose}
    IN IF opens = {} THEN <<>>
       ELSE LET a == SetMin(opens)
                b == SetMin({c \in (a + 1)..Len(h) : h[c] = PicClose})
            IN <<[from |-> a, to |-> b]>> \o PictureMatches(h, b + 1)

\* html.replace(/<picture[\s\S]*?<\/picture>/gi, callback): every match becomes
\* its placeholder and is pushed to blocks; origin records where each item of
\* the result comes from in h, gen where the placeholders stand in the result.
ProtectPictures(h) ==
    LET ms == PictureMatches(h, 1)
        kept == {i \in DOMAIN h : ~\E n \in DOMAIN ms : ms[n].from < i /\ i <= ms[n].to}
        origin_ == Sorted(kept)
    IN [html |-> [n \in DOMAIN origin_ |->
                    IF \E m \in DOMAIN ms : ms[m].from = origin_[n]
                    THEN PicturePlaceholder((CHOOSE m \in DOMAIN ms : ms[m].from = origin_[n]) - 1)
                    ELSE h[origin_[n]]],
        blocks |-> [m \in DOMAIN ms |-> SubSeq(h, ms[m].from, ms[m].to)],
        origin |-> origin_,
        gen |-> [m \in DOMAIN ms |-> Cardinality({i \in kept : i <= ms[m].from})]]

----------------------------------------------------------------------------
(* processImages, pass 2: the <img> replace callback *)

\* /width=/i, /height=/i, /loading=/i tested on the attribute text: true of
\* every attribute whose written name ends with the word
AttrNameMatches(name, word) ==
    CASE word = "width" -> name \in {"width", "WIDTH", "data-width"}
      [] word = "height" -> name \in {"height", "HEIGHT", "data-height"}
      [] word = "loading" -> name \in {"loading", "LOADING", "data-loading"}
      [] OTHER -> FALSE

TestAttr(attrs, word) == \E i \in DOMAIN attrs : AttrNameMatches(attrs[i].name, word)

\* the extension segments a path may end with
ExtSegs == {".jpg", ".jpeg", ".png", ".JPG", ".PNG", ".gif", ".svg"}

ToLowerCase(seg) ==
    CASE seg = ".JPG" -> ".jpg"
      [] seg = ".PNG" -> ".png"
      [] OTHER -> seg

\* path.extname(src): the extension of the last path component ("" for a
\* component that is only an extension, such as ".jpg")
ExtName(src) ==
    IF Len(src) >= 2 /\ src[Len(src)] \in ExtSegs
         /\ src[Len(src) - 1] \notin ExtSegs
         /\ src[Len(src) - 1] \notin {"/", "images/", "http://cdn/", "httpdocs/"}
    THEN src[Len(src)] ELSE ""

\* s.replace(/\.(png|jpe?g)$/i, "")
StripImageExt(s) ==
    IF s # <<>> /\ ToLowerCase(s[Len(s)]) \in {".png", ".jpg", ".jpeg"}
    THEN SubSeq(s, 1, Len(s) - 1) ELSE s

\* Object.keys(dimensions).find((k) => k.endsWith(relativePath)): 0 when none
FindDimKey(dims, relativePath) ==
    LET hits == {i \in DOMAIN dims : EndsWith(dims[i].key, relativePath)} IN
    IF hits = {} THEN 0 ELSE SetMin(hits)

\* basePath ? basePath.replace(/\/$/, "") : ""
NormalizePrefix(bp) ==
    IF bp # <<>> /\ bp[Len(bp)] = "/" THEN SubSeq(bp, 1, Len(bp) - 1) ELSE bp

\* the first segments of a src that start with the letters http: full URLs,
\* and a directory whose name starts with them
HttpHeads ==
    {"http://cdn/", "https://www.facebook.com/tr?id=", "https://tr.line.me/tag.gif?c_t=lap&t_id=",
     "httpdocs/"}

\* src.startsWith("/") || src.startsWith("http")
IsAbsoluteOrUrl(src) == StartsWith(src, "/") \/ (src # <<>> /\ Head(src) \in HttpHeads)

\* if (!hasWidth || !hasHeight): whether the dimension lookup is attempted
NeedsLookupAlways(hasWidth, hasHeight) == TRUE
NeedsLookup(hasWidth, hasHeight) == ~hasWidth \/ ~hasHeight

\* if (dimKey && dimensions[dimKey]) { if (!hasWidth) ...; if (!hasHeight) ... }
DimAttrs(dims, dimKey, hasWidth, hasHeight) ==
    IF dimKey # 0
    THEN (IF ~hasWidth THEN <<Attr("width", dims[dimKey].width)>> ELSE <<>>)
         \o (IF ~hasHeight THEN <<Attr("height", dims[dimKey].height)>> ELSE <<>>)
    ELSE <<>>

\* if (!isFirst && !hasLazy) newAfter += ' loading="lazy"'
LazyAttrsEveryImage(isFirst, hasLazy) ==
    IF ~hasLazy THEN <<Attr("loading", "lazy")>> ELSE <<>>
LazyAttrs(isFirst, hasLazy) ==
    IF ~isFirst /\ ~hasLazy THEN <<Attr("loading", "lazy")>> ELSE <<>>

\* the <source> lines of the two <picture> templates
Sp767 == "(max-width: 767px)"
PcSources(baseNameWithPrefix) ==
    <<Source("", baseNameWithPrefix \o <<".avif">>, "image/avif"), Ws,
      Source("", baseNameWithPrefix \o <<".webp">>, "image/webp"), Ws>>
SpSources(spBaseNameWithPrefix, spSrcWithPrefix) ==
    <<Source(Sp767, spBaseNameWithPrefix \o <<".avif">>, "image/avif"), Ws,
      Source(Sp767, spBaseNameWithPrefix \o <<".webp">>, "image/webp"), Ws,
      Source(Sp767, spSrcWithPrefix, ""), Ws>>
PictureSourcesPcOnly(hasSpImage, baseNameWithPrefix, spBaseNameWithPrefix, spSrcWithPrefix) ==
    PcSources(baseNameWithPrefix)
PictureSources(hasSpImage, baseNameWithPrefix, spBaseNameWithPrefix, spSrcWithPrefix) ==
    IF hasSpImage
    THEN SpSources(spBaseNameWithPrefix, spSrcWithPrefix) \o PcSources(baseNameWithPrefix)
    ELSE PcSources(baseNameWithPrefix)

\* The callback of html.replace(imgRegex, ...) for one match, imageIndex
\* already incremented.  Returns the replacement text and a record of what
\* the invocation did (looked: the dimension lookup branch was entered).
ImgCallback(before, src, after, imageIndex, dims, prefix, sp) ==
    LET isFirst == imageIndex = 1
        hasWidth == TestAttr(before \o after, "width")
        hasHeight == TestAttr(before \o after, "height")
        hasLazy == TestAttr(before \o after, "loading")
        lookup == NeedsLookup(hasWidth, hasHeight)
        relativePath == IF StartsWith(src, "/") THEN Tail(src) ELSE src
        dimKey == IF lookup THEN FindDimKey(dims, relativePath) ELSE 0
        newBefore == before
        newAfter == after \o DimAttrs(dims, dimKey, hasWidth, hasHeight)
                          \o LazyAttrs(isFirst, hasLazy)
        ext == ToLowerCase(ExtName(src))
        baseName == StripImageExt(src)
        imgPrefix == IF IsAbsoluteOrUrl(src) THEN <<>>
                     ELSE IF prefix # <<>> THEN prefix \o <<"/">> ELSE <<>>
        srcWithPrefix == IF IsAbsoluteOrUrl(src) THEN src ELSE imgPrefix \o src
        baseNameWithPrefix == IF IsAbsoluteOrUrl(src) THEN baseName ELSE imgPrefix \o baseName
        relativeSrc == IF StartsWith(src, "/") THEN Tail(src) ELSE src
        hasSpImage == relativeSrc \in sp
        spBaseName == StripImageExt(baseName) \o <<"-sp">>
        spBaseNameWithPrefix == IF IsAbsoluteOrUrl(src) THEN spBaseName ELSE imgPrefix \o spBaseName
        spSrcWithPrefix == IF IsAbsoluteOrUrl(src) THEN spBaseName \o <<ext>>
                           ELSE imgPrefix \o spBaseName \o <<ext>>
        text ==
            IF ext \in {".png", ".jpg", ".jpeg"}
            THEN <<PicOpen, Ws>>
                 \o PictureSources(hasSpImage, baseNameWithPrefix,
                                   spBaseNameWithPrefix, spSrcWithPrefix)
                 \o <<Img(newBefore, srcWithPrefix, newAfter), Ws, PicClose>>
            ELSE IF ~IsAbsoluteOrUrl(src) /\ prefix # <<>>
                 THEN <<Img(newBefore, prefix \o <<"/">> \o src, newAfter)>>
                 ELSE <<Img(newBefore, src, newAfter)>>
    IN [text |-> text,
        imageIndex |-> imageIndex,
        before |-> before, src |-> src, after |-> after,
        looked |-> lookup,
        newBefore |-> newBefore, newAfter |-> newAfter]

\* imgRegex = /<img([^>]*)src=["']([^"']+)["']([^>]*)>/gi matches an <img>
\* whose quoted src is not empty
ImgRegexMatches(x) == x.k = "img" /\ x.src # <<>>

\* html.replace(imgRegex, callback): every match in document order, imageIndex
\* counting the matches; a call records the position at of its match.
ReplaceImgs(h, dims, prefix, sp) ==
    LET matches == {i \in DOMAIN h : ImgRegexMatches(h[i])}
        calls_ == [n \in 1..Cardinality(matches) |->
                     LET i == Nth(matches, n) IN
                     [at |-> i] @@ ImgCallback(h[i].before, h[i].src, h[i].after,
                                               n, dims, prefix, sp)]
    IN [html |-> Flatten([i \in DOMAIN h |->
                    IF i \in matches
                    THEN calls_[Cardinality({j \in matches : j <= i})].text
                    ELSE <<h[i]>>]),
        imageIndex |-> Cardinality(matches),
        calls |-> calls_]

----------------------------------------------------------------------------
(* processImages, pass 3: restore the placeholders *)

\* pictureBlocks.forEach((block, i) => { html = html.replace(placeholder_i, block) })
RECURSIVE RestoreFrom(_, _, _)
RestoreFrom(h, blocks, i) ==
    IF i > Len(blocks) THEN h
    ELSE RestoreFrom(StringReplace(h, PicturePlaceholder(i - 1), blocks[i]), blocks, i + 1)

RestorePictures(h, blocks) == RestoreFrom(h, blocks, 1)

\* processImages as one function: the html it returns
ProcessImages(h, dims, bp, sp) ==
    LET p == ProtectPictures(h)
        r == ReplaceImgs(p.html, dims, NormalizePrefix(bp), sp)
    IN RestorePictures(r.html, p.blocks)


----------------------------------------------------------------------------
(* Inputs of processImages *)

HeroJpg == <<"images/", "hero", ".jpg">>
BannerPng == <<"/", "images/", "banner", ".PNG">>
IconGif == <<"images/", "icon", ".gif">>
CdnJpg == <<"http://cdn/", "hero", ".jpg">>
DocsGif == <<"httpdocs/", "icon", ".gif">>

ImgHero == Img(<<>>, HeroJpg, <<Attr("alt", "x")>>)
ImgBanner == Img(<<Attr("width", "5"), Attr("height", "6")>>, BannerPng, <<>>)
ImgIcon == Img(<<>>, IconGif, <<Attr("loading", "eager")>>)
ImgData == Img(<<Attr("data-loading", "1")>>, HeroJpg, <<Attr("HEIGHT", "6")>>)
ImgCdn == Img(<<>>, CdnJpg, <<>>)
ImgDocs == Img(<<Attr("data-width", "9")>>, DocsGif, <<>>)
\* <img src="">: not matched by imgRegex
ImgEmpty == Img(<<>>, <<>>, <<>>)

\* the segments an input document is made of
Segments ==
    { <<Txt("a")>>,
      <<PicturePlaceholder(0)>>,
      <<ImgHero>>, <<ImgBanner>>, <<ImgIcon>>, <<ImgData>>, <<ImgEmpty>>,
      <<ImgCdn>>, <<ImgDocs>>,
      <<PicOpen, ImgHero, PicClose>>,
      <<PicOpen, Txt("$&"), ImgBanner, PicClose>>,
      <<PicOpen, Txt("$$"), PicClose>>,
      <<PicOpen, PicturePlaceholder(1), PicClose>> }

Documents == UNION {{Flatten(ss) : ss \in [1..n -> Segments]} : n \in 1..MaxSegs}

DimsNone == <<>>
DimsHero == <<[key |-> <<"src/">> \o HeroJpg, width |-> "100", height |-> "50"]>>
DimsTwo ==
    <<[key |-> <<"src/", "old/">> \o HeroJpg, width |-> "1", height |-> "2"],
      [key |-> <<"src/">> \o HeroJpg, width |-> "100", height |-> "50"],
      [key |-> <<"src/">> \o Tail(BannerPng), width |-> "300", height |-> "200"],
      [key |-> <<"src/">> \o DocsGif, width |-> "16", height |-> "8"]>>

\* the (dimensions, basePath, spImages) triples processImages is called with
ImageEnvs ==
    { [dimensions |-> DimsNone, basePath |-> <<>>, spImages |-> {}],
      [dimensions |-> DimsHero, basePath |-> <<"/campaign">>, spImages |-> {HeroJpg}],
      [dimensions |-> DimsTwo, basePath |-> <<"/campaign", "/">>, spImages |-> {Tail(BannerPng)}],
      [dimensions |-> DimsTwo, basePath |-> <<>>, spImages |-> {HeroJpg, Tail(BannerPng)}] }

----------------------------------------------------------------------------
(* The parts of the state a specification does not use *)

ImagesIdle ==
    /\ html0 = <<>> /\ dimensions = <<>> /\ basePath = <<>> /\ spImages = {}
    /\ html = <<>> /\ pictureBlocks = <<>> /\ origin = <<>> /\ calls = <<>>
    /\ ipc = "idle"

ScanIdle == scanTree = <<>> /\ scanStack = <<>> /\ scanSet = {} /\ spc = "idle"

GenIdle == genHtml = <<>> /\ genOut = <<>> /\ gpc = "idle"

PageIdle ==
    /\ ppc = "idle" /\ script = <<>> /\ scrollTracked = {} /\ timeTracked = {}
    /\ gtagIsFunction = FALSE /\ clock = 0 /\ inputs = <<>> /\ sent = <<>>

BuildIdle ==
    /\ bpc = "idle" /\ srcTree = <<>> /\ buildDir = {} /\ buildBasePath = <<>>
    /\ buildSpImages = {} /\ faviconTags = <<>> /\ assembly = <<>> /\ conversionCode = <<>>
    /\ started = <<>> /\ faults = {} /\ log = <<>> /\ exitCode = 0

----------------------------------------------------------------------------
(* processImages as a state machine: one action per pass *)

InitImages ==
    /\ config = <<>> /\ GenIdle /\ BuildIdle /\ PageIdle /\ ScanIdle
    /\ html0 \in Documents
    /\ \E e \in ImageEnvs :
          /\ dimensions = e.dimensions
          /\ basePath = e.basePath
          /\ spImages = e.spImages
    /\ html = html0
    /\ pictureBlocks = <<>>
    /\ origin = <<>>
    /\ calls = <<>>
    /\ ipc = "start"

\* lines 554-559
Protect ==
    /\ ipc = "start"
    /\ LET p == ProtectPictures(html) IN
          /\ html' = p.html
          /\ pictureBlocks' = p.blocks
          /\ origin' = p.origin
    /\ ipc' = "protected"
    /\ UNCHANGED <<html0, dimensions, basePath, spImages, calls>>
    /\ UNCHANGED <<config, genVars, buildVars, pageVars, scanVars>>

\* lines 561-639
RewriteImgs ==
    /\ ipc = "protected"
    /\ LET r == ReplaceImgs(html, dimensions, NormalizePrefix(basePath), spImages) IN
          /\ html' = r.html
          /\ calls' = r.calls
    /\ ipc' = "rewritten"
    /\ UNCHANGED <<html0, dimensions, basePath, spImages, pictureBlocks, origin>>
    /\ UNCHANGED <<config, genVars, buildVars, pageVars, scanVars>>

\* lines 641-646
Restore ==
    /\ ipc = "rewritten"
    /\ html' = RestorePictures(html, pictureBlocks)
    /\ ipc' = "done"
    /\ UNCHANGED <<html0, dimensions, basePath, spImages, pictureBlocks, origin, calls>>
    /\ UNCHANGED <<config, genVars, buildVars, pageVars, scanVars>>

NextImages == Protect \/ RewriteImgs \/ Restore

SpecImages == InitImages /\ [][NextImages]_vars


----------------------------------------------------------------------------
(* Properties of processImages *)

RECURSIVE SumLen(_, _)
\* the summed length of f[1], ..., f[n]
SumLen(f, n) == IF n = 0 THEN 0 ELSE Len(f[n]) + SumLen(f, n - 1)

\* positions of the <img> tags (with a non-empty src) of the input document,
\* wherever they stand
DocImgs == {p \in DOMAIN html0 : html0[p].k = "img" /\ html0[p].src # <<>>}

\* the invocation of the replace callback for the <img> at position p of html0
CallsOf(p) == {i \in DOMAIN calls : origin[calls[i].at] = p}

\* the invocation appended loading="lazy"
AddedLazy(c) ==
    /\ Len(c.newAfter) > Len(c.after)
    /\ c.newAfter[Len(c.newAfter)] = Attr("loading", "lazy")

\* the <img> carries an attribute named n (names are case-insensitive)
HasAttrNamed(x, lower, upper) ==
    \E i \in DOMAIN (x.before \o x.after) : (x.before \o x.after)[i].name \in {lower, upper}

SourcesIn(text) == {i \in DOMAIN text : text[i].k = "source"}
ImgsIn(text) == {i \in DOMAIN text : text[i].k = "img"}

\* the src has a PNG/JPG/JPEG extension, in any letter case
HasImageExt(src) == ToLowerCase(ExtName(src)) \in {".png", ".jpg", ".jpeg"}

\* C1: every pre-existing <picture> block of the input stands in the returned
\* html character for character, at the place the text before it (with its
\* <img> tags rewritten) puts it.
C1_PictureBlocksVerbatim ==
    ipc = "done" =>
        LET p == ProtectPictures(html0)
            \* what each item of the protected document becomes
            piece == [q \in DOMAIN p.html |->
                        IF \E i \in DOMAIN p.gen : p.gen[i] = q
                        THEN p.blocks[CHOOSE i \in DOMAIN p.gen : p.gen[i] = q]
                        ELSE IF \E i \in DOMAIN calls : calls[i].at = q
                        THEN calls[CHOOSE i \in DOMAIN calls : calls[i].at = q].text
                        ELSE <<p.html[q]>>]
        IN \A i \in DOMAIN p.blocks :
              LET first == SumLen(piece, p.gen[i] - 1) + 1
                  block == SubSeq(html0, p.origin[p.gen[i]],
                                  p.origin[p.gen[i]] + Len(p.blocks[i]) - 1)
              IN SubSeq(html, first, first + Len(block) - 1) = block

\* the attribute text of the <img> contains "loading=" in some letter case
WritesLoading(x) ==
    \E j \in DOMAIN (x.before \o x.after) :
        (x.before \o x.after)[j].name \in {"loading", "LOADING", "data-loading"}

WidthHeightOf(attrs) ==
    SelectSeq(attrs, LAMBDA a : a.name \in {"width", "WIDTH", "height", "HEIGHT"})

C3_ExplicitDimensionsKept ==
    ipc = "done" =>
        \A p \in DocImgs :
            (HasAttrNamed(html0[p], "width", "WIDTH") /\ HasAttrNamed(html0[p], "height", "HEIGHT"))
            => \A i \in CallsOf(p) :
                  LET c == calls[i]
                      img == c.text[CHOOSE j \in ImgsIn(c.text) : TRUE]
                  IN /\ ~c.looked
                     /\ Cardinality(ImgsIn(c.text)) = 1
                     /\ WidthHeightOf(img.before \o img.after)
                            = WidthHeightOf(html0[p].before \o html0[p].after)

\* C3 witness: an <img> with both attributes was rewritten while the table
\* holds a key that ends with its path
C3_Witness ==
    /\ ipc = "done"
    /\ \E i \in DOMAIN calls :
          /\ HasAttrNamed(calls[i], "width", "WIDTH")
          /\ HasAttrNamed(calls[i], "height", "HEIGHT")
          /\ FindDimKey(dimensions,
                 IF StartsWith(calls[i].src, "/") THEN Tail(calls[i].src) ELSE calls[i].src) # 0

\* the text is one <picture> block holding n <source> elements and one <img>
IsPictureWith(text, n) ==
    /\ text # <<>>
    /\ text[1] = PicOpen
    /\ text[Len(text)] = PicClose
    /\ Cardinality(SourcesIn(text)) = n
    /\ Cardinality(ImgsIn(text)) = 1
    /\ \A i \in SourcesIn(text) : \A j \in ImgsIn(text) : i < j

SpKey(src) == IF StartsWith(src, "/") THEN Tail(src) ELSE src

IsPrefixOf(p, s) == Len(p) <= Len(s) /\ SubSeq(s, 1, Len(p)) = p

\* the attributes of the <img> whose name is n, in some letter case
AttrsNamed(x, lower, upper) ==
    SelectSeq(x.before \o x.after, LAMBDA a : a.name \in {lower, upper})

\* the first key of the table, in its order, that ends with the src without
\* its leading slash; 0 when there is none
FirstKeyFor(dims, src) ==
    LET hits == {k \in DOMAIN dims : EndsWith(dims[k].key, SpKey(src))}
    IN IF hits = {} THEN 0 ELSE SetMin(hits)

\* C18: an <img> that lacks width or height gets, from the first key of the
\* table (in its order) that ends with the src without its leading slash, the
\* attributes it lacks and only those, with the pixel values of that entry,
\* appended after the attributes it has; an attribute that is present stays
\* as written; when no key matches no width or height is added and the
\* <img> is processed as usual.
C18_DimensionLookup ==
    ipc = "done" =>
        \A i \in DOMAIN calls :
            LET c == calls[i]
                img == c.text[CHOOSE j \in ImgsIn(c.text) : TRUE]
                lacksWidth == ~HasAttrNamed(c, "width", "WIDTH")
                lacksHeight == ~HasAttrNamed(c, "height", "HEIGHT")
                key == FirstKeyFor(dimensions, c.src)
                added == IF key = 0 THEN <<>>
                         ELSE (IF lacksWidth THEN <<Attr("width", dimensions[key].width)>>
                               ELSE <<>>)
                              \o (IF lacksHeight THEN <<Attr("height", dimensions[key].height)>>
                                  ELSE <<>>)
            IN /\ Cardinality(ImgsIn(c.text)) = 1
               /\ img.before = c.before
               /\ IsPrefixOf(c.after \o added, img.after)
               /\ AttrsNamed(img, "width", "WIDTH")
                     = AttrsNamed(c, "width", "WIDTH") \o SelectSeq(added, LAMBDA a : a.name = "width")
               /\ AttrsNamed(img, "height", "HEIGHT")
                     = AttrsNamed(c, "height", "HEIGHT") \o SelectSeq(added, LAMBDA a : a.name = "height")
               /\ HasImageExt(c.src) = (c.text[1] = PicOpen)

\* the first segments of a full URL (scheme://host/...)
UrlHeads == {h \in HttpHeads : h # "httpdocs/"}

\* the src is relative: neither absolute (leading slash) nor a full URL
IsRelative(src) == ~StartsWith(src, "/") /\ Head(src) \notin UrlHeads

\* what stands in front of an emitted path: the prefix without its trailing
\* slash and a slash for a relative src when a prefix is configured, nothing
\* otherwise
ExpectedPrefix(src, bp) ==
    IF IsRelative(src) /\ NormalizePrefix(bp) # <<>>
    THEN NormalizePrefix(bp) \o <<"/">> ELSE <<>>

\* C13: a src that starts with "/" or is a full URL is never prefixed, in the
\* <img> src and in every emitted srcset; every other (relative) src is
\* emitted as the prefix without its trailing slash, "/", and the src when a
\* prefix is configured, for an <img> converted to <picture> (its src and all
\* its srcset values) and for one left as a plain <img>; with no prefix
\* configured every path is emitted unchanged.
C13_PrefixRewriting ==
    ipc = "done" =>
        \A i \in DOMAIN calls :
            LET c == calls[i]
                pre == ExpectedPrefix(c.src, basePath)
            IN /\ \A j \in ImgsIn(c.text) : c.text[j].src = pre \o c.src
               /\ \A j \in SourcesIn(c.text) :
                     IsPrefixOf(pre \o StripImageExt(c.src), c.text[j].srcset)


----------------------------------------------------------------------------
(* Configuration map and character-level text *)

\* A configuration value is a sequence of characters; the characters the
\* code looks at are single tokens ("<", "/", "&", ...), a run of other
\* characters is one token ("T", "script").  An absent key and an empty value
\* are both <<>>: every read of env in build.mjs is a truthiness test.
Absent == <<>>

\* a || b
OrElse(a, b) == IF a # <<>> THEN a ELSE b

(* JSON values: [t |-> "str", v |-> characters], [t |-> "obj", v |-> pairs],
   [t |-> "arr", v |-> values]; a pair is [key |-> name, val |-> value] *)
JStr(v) == [t |-> "str", v |-> v]
JObj(pairs) == [t |-> "obj", v |-> pairs]
JArr(xs) == [t |-> "arr", v |-> xs]
Pair(k, v) == <<[key |-> k, val |-> v]>>
JNull == [t |-> "null", v |-> <<>>]
\* ...(cond && { pairs }) : the pairs when cond is truthy, nothing otherwise
Opt(cond, pairs) == IF cond THEN pairs ELSE <<>>

\* the characters of a JSON string literal: " and \ are escaped
JsonQuote(cs) ==
    Flatten([i \in DOMAIN cs |->
                IF cs[i] = "\"" THEN <<"\\", "\"">>
                ELSE IF cs[i] = "\\" THEN <<"\\", "\\">>
                ELSE <<cs[i]>>])

\* JSON.stringify(obj)
RECURSIVE JsonStringify(_)
RECURSIVE JsonMembers(_, _)
JsonMembers(xs, isObj) ==
    IF xs = <<>> THEN <<>>
    ELSE (IF isObj
          THEN <<"\"" \o Head(xs).key \o "\":">> \o JsonStringify(Head(xs).val)
          ELSE JsonStringify(Head(xs)))
         \o (IF Len(xs) > 1 THEN <<",">> ELSE <<>>)
         \o JsonMembers(Tail(xs), isObj)
JsonStringify(x) ==
    CASE x.t = "str" -> <<"\"">> \o JsonQuote(x.v) \o <<"\"">>
      [] x.t = "obj" -> <<"{">> \o JsonMembers(x.v, TRUE) \o <<"}">>
      [] x.t = "arr" -> <<"[">> \o JsonMembers(x.v, FALSE) \o <<"]">>

\* json.replace(/<\//g, "<\\/"): every "</" becomes "<\/"
\* the positions of cs where "</" starts
CloseTagsAt(cs) == {i \in 1..(Len(cs) - 1) : cs[i] = "<" /\ cs[i + 1] = "/"}
ReplaceCloseTagFirstOnly(cs) ==
    Flatten([i \in DOMAIN cs |->
                IF i \in CloseTagsAt(cs) /\ i = SetMin(CloseTagsAt(cs))
                THEN <<"<", "\\">> ELSE <<cs[i]>>])
ReplaceCloseTag(cs) ==
    Flatten([i \in DOMAIN cs |-> IF i \in CloseTagsAt(cs) THEN <<"<", "\\">> ELSE <<cs[i]>>])

EscapeJsonLdFirstOnly(obj) == ReplaceCloseTagFirstOnly(JsonStringify(obj))
EscapeJsonLd(obj) == ReplaceCloseTag(JsonStringify(obj))


----------------------------------------------------------------------------
(* generateSingleStructuredData / generateStructuredData *)

SchemaOrg == Pair("@context", JStr(<<"https://schema.org">>))

\* s.trim() on a sequence of characters / of document items
IsSpace(c) == c \in {" ", "\n"}
RECURSIVE TrimStart(_)
TrimStart(cs) == IF cs # <<>> /\ IsSpace(Head(cs)) THEN TrimStart(Tail(cs)) ELSE cs
RECURSIVE TrimEnd(_)
TrimEnd(cs) ==
    IF cs # <<>> /\ IsSpace(cs[Len(cs)]) THEN TrimEnd(SubSeq(cs, 1, Len(cs) - 1)) ELSE cs
Trim(cs) == TrimEnd(TrimStart(cs))

\* type.toLowerCase() of a type name
LowerType(c) ==
    CASE c \in {"Event", "EVENT", "event"} -> "event"
      [] c \in {"Product", "product"} -> "product"
      [] c \in {"LocalBusiness", "localbusiness"} -> "localbusiness"
      [] c \in {"Organization", "organization"} -> "organization"
      [] c \in {"FAQPage", "faqpage"} -> "faqpage"
      [] OTHER -> c

\* the characters of a document item, as html holds them
ItemChars(x) ==
    IF x.k = "tag" /\ x.s = "</script>" THEN <<"<", "/", "script", ">">>
    ELSE IF x.k = "tag" /\ x.s = "</b>" THEN <<"<", "/", "b", ">">>
    ELSE IF x.k \in {"txt", "tag"} THEN <<x.s>>
    ELSE <<"<img>">>
TextOf(h) == Flatten([i \in DOMAIN h |-> ItemChars(h[i])])

\* first position >= i of h whose item is one of tags, 0 when none
FirstFrom(h, i, tags) ==
    LET S == {j \in i..Len(h) : h[j] \in tags} IN IF S = {} THEN 0 ELSE SetMin(S)

SummaryOpen == {Tag("<summary>")}
SummaryClose == {Tag("</summary>")}
\* <p[^>]*> : any tag whose name starts with p
POpen == {Tag("<p>"), PicOpen}
PClose == {Tag("</p>")}

\* while ((match = faqRegex.exec(html)) !== null) { ... } with
\* faqRegex = /<summary[^>]*>([\s\S]*?)<\/summary>[\s\S]*?<p[^>]*>([\s\S]*?)<\/p>/gi
RECURSIVE FaqItemsFrom(_, _)
FaqItemsFrom(h, i) ==
    LET so == FirstFrom(h, i, SummaryOpen)
        sc == IF so = 0 THEN 0 ELSE FirstFrom(h, so + 1, SummaryClose)
        po == IF sc = 0 THEN 0 ELSE FirstFrom(h, sc + 1, POpen)
        pe == IF po = 0 THEN 0 ELSE FirstFrom(h, po + 1, PClose)
    IN IF pe = 0 THEN <<>>
       ELSE LET question == Trim(TextOf(SubSeq(h, so + 1, sc - 1)))
                answer == Trim(TextOf(SubSeq(h, po + 1, pe - 1)))
            IN (IF question # <<>> /\ answer # <<>>
                THEN <<[question |-> question, answer |-> answer,
                        summaryAt |-> so, pAt |-> po]>>
                ELSE <<>>)
               \o FaqItemsFrom(h, pe + 1)

FaqEntity(it) ==
    JObj(Pair("@type", JStr(<<"Question">>))
         \o Pair("name", JStr(it.question))
         \o Pair("acceptedAnswer",
                 JObj(Pair("@type", JStr(<<"Answer">>)) \o Pair("text", JStr(it.answer)))))

RECURSIVE MapFaq(_)
MapFaq(items) == IF items = <<>> THEN <<>> ELSE <<FaqEntity(Head(items))>> \o MapFaq(Tail(items))

Has(v) == v # <<>>

\* the object of one type, or null with the warning written:
\* [data |-> object or JNull, warn |-> the text of console.warn or ""]
GenerateSingleStructuredData(type, env, h) ==
    LET t == IF Len(Trim(type)) = 1 THEN LowerType(Trim(type)[1]) ELSE "?" IN
    CASE t = "event" ->
           LET name == OrElse(env["EVENT_NAME"], env["SITE_TITLE"]) IN
           IF ~Has(name)
           THEN [data |-> JNull, warn |-> "Event structured data requires EVENT_NAME or SITE_TITLE"]
           ELSE [warn |-> "", data |-> JObj(
                SchemaOrg \o Pair("@type", JStr(<<"Event">>)) \o Pair("name", JStr(name))
                \o Opt(Has(OrElse(env["EVENT_DESCRIPTION"], env["SITE_DESCRIPTION"])),
                       Pair("description", JStr(OrElse(env["EVENT_DESCRIPTION"], env["SITE_DESCRIPTION"]))))
                \o Opt(Has(OrElse(env["EVENT_IMAGE_URL"], env["OG_IMAGE_URL"])),
                       Pair("image", JStr(OrElse(env["EVENT_IMAGE_URL"], env["OG_IMAGE_URL"]))))
                \o Opt(Has(env["EVENT_START_DATE"]), Pair("startDate", JStr(env["EVENT_START_DATE"])))
                \o Opt(Has(env["EVENT_END_DATE"]), Pair("endDate", JStr(env["EVENT_END_DATE"])))
                \o Opt(Has(env["EVENT_LOCATION_NAME"]) \/ Has(env["EVENT_LOCATION_ADDRESS"]),
                       Pair("location", JObj(
                           Pair("@type", JStr(<<"Place">>))
                           \o Opt(Has(env["EVENT_LOCATION_NAME"]), Pair("name", JStr(env["EVENT_LOCATION_NAME"])))
                           \o Opt(Has(env["EVENT_LOCATION_ADDRESS"]), Pair("address", JStr(env["EVENT_LOCATION_ADDRESS"]))))))
                \o Opt(Has(env["EVENT_OFFER_PRICE"]),
                       Pair("offers", JObj(
                           Pair("@type", JStr(<<"Offer">>))
                           \o Pair("price", JStr(env["EVENT_OFFER_PRICE"]))
                           \o Pair("priceCurrency", JStr(OrElse(env["EVENT_OFFER_CURRENCY"], <<"JPY">>)))
                           \o Pair("availability", JStr(<<"https://schema.org/InStock">>))
                           \o Opt(Has(OrElse(env["EVENT_OFFER_URL"], env["OG_URL"])),
                                  Pair("url", JStr(OrElse(env["EVENT_OFFER_URL"], env["OG_URL"])))))))
                \o Opt(Has(env["EVENT_PERFORMER"]),
                       Pair("performer", JObj(Pair("@type", JStr(<<"Person">>))
                                              \o Pair("name", JStr(env["EVENT_PERFORMER"])))))
                \o Opt(Has(env["OG_SITE_NAME"]),
                       Pair("organizer", JObj(Pair("@type", JStr(<<"Organization">>))
                                              \o Pair("name", JStr(env["OG_SITE_NAME"]))))))]
      [] t = "product" ->
           LET name == OrElse(env["PRODUCT_NAME"], env["SITE_TITLE"]) IN
           IF ~Has(name)
           THEN [data |-> JNull, warn |-> "Product structured data requires PRODUCT_NAME or SITE_TITLE"]
           ELSE [warn |-> "", data |-> JObj(
                SchemaOrg \o Pair("@type", JStr(<<"Product">>)) \o Pair("name", JStr(name))
                \o Opt(Has(env["SITE_DESCRIPTION"]), Pair("description", JStr(env["SITE_DESCRIPTION"])))
                \o Opt(Has(env["OG_IMAGE_URL"]), Pair("image", JStr(env["OG_IMAGE_URL"])))
                \o Opt(Has(env["PRODUCT_BRAND"]), Pair("brand", JStr(env["PRODUCT_BRAND"])))
                \o Opt(Has(env["PRODUCT_PRICE"]),
                       Pair("offers", JObj(
                           Pair("@type", JStr(<<"Offer">>))
                           \o Pair("price", JStr(env["PRODUCT_PRICE"]))
                           \o Pair("priceCurrency", JStr(OrElse(env["PRODUCT_CURRENCY"], <<"JPY">>)))
                           \o Pair("availability",
                                   JStr(OrElse(env["PRODUCT_AVAILABILITY"], <<"https://schema.org/InStock">>)))))))]
      [] t = "localbusiness" ->
           LET name == OrElse(env["BUSINESS_NAME"], env["OG_SITE_NAME"])
               address == env["BUSINESS_ADDRESS"]
               city == env["BUSINESS_CITY"]
           IN
           IF ~Has(name)
           THEN [data |-> JNull, warn |-> "LocalBusiness structured data requires BUSINESS_NAME or OG_SITE_NAME"]
           ELSE [warn |-> "", data |-> JObj(
                SchemaOrg \o Pair("@type", JStr(OrElse(env["BUSINESS_TYPE"], <<"LocalBusiness">>)))
                \o Pair("name", JStr(name))
                \o Opt(Has(env["SITE_DESCRIPTION"]), Pair("description", JStr(env["SITE_DESCRIPTION"])))
                \o Opt(Has(OrElse(env["BUSINESS_IMAGE_URL"], env["OG_IMAGE_URL"])),
                       Pair("image", JStr(OrElse(env["BUSINESS_IMAGE_URL"], env["OG_IMAGE_URL"]))))
                \o Opt(Has(env["BUSINESS_PHONE"]), Pair("telephone", JStr(env["BUSINESS_PHONE"])))
                \o Opt(Has(OrElse(env["BUSINESS_URL"], env["OG_URL"])),
                       Pair("url", JStr(OrElse(env["BUSINESS_URL"], env["OG_URL"]))))
                \o Opt(Has(env["BUSINESS_PRICE_RANGE"]), Pair("priceRange", JStr(env["BUSINESS_PRICE_RANGE"])))
                \o Opt(Has(address) /\ Has(city),
                       Pair("address", JObj(
                           Pair("@type", JStr(<<"PostalAddress">>))
                           \o Pair("streetAddress", JStr(address))
                           \o Pair("addressLocality", JStr(city))
                           \o Opt(Has(env["BUSINESS_REGION"]), Pair("addressRegion", JStr(env["BUSINESS_REGION"])))
                           \o Opt(Has(env["BUSINESS_POSTAL_CODE"]), Pair("postalCode", JStr(env["BUSINESS_POSTAL_CODE"])))
                           \o Pair("addressCountry", JStr(OrElse(env["BUSINESS_COUNTRY"], <<"JP">>)))))))]
      [] t = "organization" ->
           LET name == OrElse(env["ORG_NAME"], env["OG_SITE_NAME"])
               url == OrElse(env["ORG_URL"], env["OG_URL"])
           IN
           IF ~Has(name) \/ ~Has(url)
           THEN [data |-> JNull, warn |-> "Organization structured data requires name and url"]
           ELSE [warn |-> "", data |-> JObj(
                SchemaOrg \o Pair("@type", JStr(<<"Organization">>))
                \o Pair("name", JStr(name)) \o Pair("url", JStr(url))
                \o Opt(Has(OrElse(env["ORG_LOGO_URL"], env["OG_IMAGE_URL"])),
                       Pair("logo", JStr(OrElse(env["ORG_LOGO_URL"], env["OG_IMAGE_URL"]))))
                \o Opt(Has(OrElse(env["ORG_DESCRIPTION"], env["SITE_DESCRIPTION"])),
                       Pair("description", JStr(OrElse(env["ORG_DESCRIPTION"], env["SITE_DESCRIPTION"]))))
                \o Opt(Has(env["ORG_EMAIL"]), Pair("email", JStr(env["ORG_EMAIL"])))
                \o Opt(Has(env["ORG_PHONE"]), Pair("telephone", JStr(env["ORG_PHONE"]))))]
      [] t = "faqpage" ->
           LET faqItems == FaqItemsFrom(h, 1) IN
           IF Len(faqItems) > 0
           THEN [warn |-> "", data |-> JObj(
                    SchemaOrg \o Pair("@type", JStr(<<"FAQPage">>))
                    \o Pair("mainEntity", JArr(MapFaq(faqItems))))]
           ELSE [data |-> JNull, warn |-> ""]
      [] OTHER -> [data |-> JNull, warn |-> "Unknown structured data type"]

\* typeString.split(","): the pieces between the commas
RECURSIVE SplitComma(_, _)
SplitComma(cs, cur) ==
    IF cs = <<>> THEN <<cur>>
    ELSE IF Head(cs) = "," THEN <<cur>> \o SplitComma(Tail(cs), <<>>)
    ELSE SplitComma(Tail(cs), Append(cur, Head(cs)))

\* .map((t) => t.trim()).filter(Boolean)
RECURSIVE TrimAndFilter(_)
TrimAndFilter(ts) ==
    IF ts = <<>> THEN <<>>
    ELSE (IF Trim(Head(ts)) # <<>> THEN <<Trim(Head(ts))>> ELSE <<>>) \o TrimAndFilter(Tail(ts))

\* <script type="application/ld+json">{payload}</script>
LdScript(payload) == [k |-> "ldjson", payload |-> payload]

\* a loop that gives up at the first entry that does not resolve (not what
\* generateStructuredData does)
StructuredDataStepAbort(one, rest, i) ==
    IF one.data = JNull
    THEN [scripts |-> <<>>, warns |-> <<one.warn>>, resolved |-> <<>>]
    ELSE [scripts |-> <<LdScript(EscapeJsonLd(one.data))>> \o rest.scripts,
          warns |-> rest.warns, resolved |-> <<i>> \o rest.resolved]

\* one turn of the for loop: the result one of generateSingleStructuredData
\* for types[i], put before what the later turns give
StructuredDataStep(one, rest, i) ==
    [scripts |-> (IF one.data # JNull THEN <<LdScript(EscapeJsonLd(one.data))>> ELSE <<>>)
                 \o rest.scripts,
     warns |-> (IF one.warn # "" THEN <<one.warn>> ELSE <<>>) \o rest.warns,
     resolved |-> (IF one.data # JNull THEN <<i>> ELSE <<>>) \o rest.resolved]

\* the for loop of generateStructuredData: [scripts, warns, resolved]
RECURSIVE StructuredDataLoop(_, _, _, _)
StructuredDataLoop(types, i, env, h) ==
    IF i > Len(types) THEN [scripts |-> <<>>, warns |-> <<>>, resolved |-> <<>>]
    ELSE StructuredDataStep(GenerateSingleStructuredData(types[i], env, h),
                            StructuredDataLoop(types, i + 1, env, h), i)

\* xs.join("\n") for fragments that are sequences of items
JoinLines(xs) ==
    Flatten([i \in DOMAIN xs |-> IF i = 1 THEN xs[i] ELSE <<Ws>> \o xs[i]])

\* scripts.join("\n") with what the loop gave
StructuredDataResult(types, r) ==
    [text |-> JoinLines([i \in DOMAIN r.scripts |-> <<r.scripts[i]>>]),
     scripts |-> r.scripts, warns |-> r.warns, resolved |-> r.resolved, types |-> types]

\* generateStructuredData(env, html): text is the returned string ("" is
\* <<>>), scripts its <script> tags, resolved the entries that gave one
GenerateStructuredData(env, h) ==
    LET typeString == env["STRUCTURED_DATA_TYPE"]
        types == TrimAndFilter(SplitComma(typeString, <<>>))
    IN IF ~Has(typeString) \/ Len(types) = 0
       THEN [text |-> <<>>, scripts |-> <<>>, warns |-> <<>>, resolved |-> <<>>, types |-> <<>>]
       ELSE StructuredDataResult(types, StructuredDataLoop(types, 1, env, h))


----------------------------------------------------------------------------
(* Inputs of the generators *)

EnvKeys ==
    {"SITE_TITLE", "SITE_DESCRIPTION", "OG_TYPE", "OG_URL", "OG_IMAGE_URL",
     "OG_IMAGE_WIDTH", "OG_IMAGE_HEIGHT", "OG_SITE_NAME", "OG_LOCALE",
     "TWITTER_CARD", "TWITTER_SITE",
     "GA_MEASUREMENT_ID", "GA_ADS_ID", "GA_ADS_CONVERSION_LABEL", "META_PIXEL_ID",
     "LINE_TAG_ID", "YAHOO_RETARGETING_ID", "YAHOO_CONVERSION_ID",
     "YAHOO_CONVERSION_LABEL", "CLARITY_PROJECT_ID",
     "TRACK_SCROLL_DEPTH", "TRACK_TIME_ON_PAGE", "BASE_PATH",
     "STRUCTURED_DATA_TYPE",
     "EVENT_NAME", "EVENT_DESCRIPTION", "EVENT_IMAGE_URL", "EVENT_START_DATE",
     "EVENT_END_DATE", "EVENT_LOCATION_NAME", "EVENT_LOCATION_ADDRESS",
     "EVENT_OFFER_PRICE", "EVENT_OFFER_CURRENCY", "EVENT_OFFER_URL", "EVENT_PERFORMER",
     "PRODUCT_NAME", "PRODUCT_BRAND", "PRODUCT_PRICE", "PRODUCT_CURRENCY",
     "PRODUCT_AVAILABILITY",
     "BUSINESS_NAME", "BUSINESS_TYPE", "BUSINESS_ADDRESS", "BUSINESS_CITY",
     "BUSINESS_REGION", "BUSINESS_POSTAL_CODE", "BUSINESS_COUNTRY", "BUSINESS_PHONE",
     "BUSINESS_URL", "BUSINESS_IMAGE_URL", "BUSINESS_PRICE_RANGE",
     "ORG_NAME", "ORG_URL", "ORG_LOGO_URL", "ORG_DESCRIPTION", "ORG_EMAIL", "ORG_PHONE"}

\* the configuration map with every key absent
EmptyEnv == [k \in EnvKeys |-> Absent]

\* the map that holds the given keys and nothing else
EnvWith(f) == [k \in EnvKeys |-> IF k \in DOMAIN f THEN f[k] ELSE Absent]

ValPlain == <<"T">>
ValCloseScript == <<"<", "/", "script", ">", "<", "/", "b", ">">>
ValQuoted == <<"\"", "\\", "<", "/", "script">>

\* STRUCTURED_DATA_TYPE values
TypeLists ==
    { Absent,
      <<",", " ">>,
      <<"Organization", ",", "Unknown", ",", "FAQPage">>,
      <<" ", "EVENT", " ", ",", ",", "product">>,
      <<"LocalBusiness">>,
      <<"faqpage", ",", " ", "organization">> }

SdEnvs ==
    { EnvWith([STRUCTURED_DATA_TYPE |-> ty, SITE_TITLE |-> a, SITE_DESCRIPTION |-> b,
               OG_SITE_NAME |-> c, OG_URL |-> d, BUSINESS_ADDRESS |-> e, BUSINESS_CITY |-> c,
               EVENT_OFFER_PRICE |-> d]) :
        ty \in TypeLists, a \in {Absent, ValCloseScript}, b \in {Absent, ValQuoted},
        c \in {Absent, ValPlain}, d \in {Absent, ValPlain}, e \in {Absent, ValCloseScript} }

\* disclosure blocks: <details><summary>Q</summary><p>A</p></details>
Details(summary, body) ==
    <<Tag("<details>"), Tag("<summary>")>> \o summary \o <<Tag("</summary>")>> \o body
        \o <<Tag("</details>")>>

FaqBlocks ==
    { Details(<<Txt("Q1")>>, <<Tag("<p>"), Txt("A1"), Tag("</p>")>>),
      Details(<<Txt(" "), Txt("Q2"), Txt(" ")>>,
              <<Tag("<p>"), Txt("A2"), Tag("</b>"), Tag("</script>"), Tag("</p>")>>),
      Details(<<Txt("Q3")>>, <<Txt("no paragraph")>>),
      Details(<<Txt(" ")>>, <<Tag("<p>"), Txt("A4"), Tag("</p>")>>) }

FaqDocuments ==
    UNION {{Flatten(ss) : ss \in [1..n -> FaqBlocks]} : n \in 0..MaxFaqBlocks}

----------------------------------------------------------------------------
(* generateStructuredData as a state machine *)

InitStructuredData ==
    /\ ImagesIdle /\ BuildIdle /\ PageIdle /\ ScanIdle
    /\ config \in SdEnvs
    /\ genHtml \in FaqDocuments
    /\ genOut = <<>>
    /\ gpc = "start"

\* lines 406-424
StructuredData ==
    /\ gpc = "start"
    /\ genOut' = GenerateStructuredData(config, genHtml)
    /\ gpc' = "structuredData"
    /\ UNCHANGED <<config, genHtml>>
    /\ UNCHANGED <<imgVars, buildVars, pageVars, scanVars>>

NextStructuredData == StructuredData

SpecStructuredData == InitStructuredData /\ [][NextStructuredData]_vars

\* C5: no payload of a JSON-LD <script> tag that generateStructuredData returns
\* contains "</" (so none contains "</script"), whatever the configuration
\* values and the extracted questions and answers contain.
C5_NoCloseTagInPayload ==
    gpc = "structuredData" =>
        \A i \in DOMAIN genOut.scripts :
            LET payload == genOut.scripts[i].payload IN
            \A j \in 1..(Len(payload) - 1) : ~(payload[j] = "<" /\ payload[j + 1] = "/")

\* the characters hold "</script"
HoldsCloseScript(cs) ==
    \E j \in 1..(Len(cs) - 2) : cs[j] = "<" /\ cs[j + 1] = "/" /\ cs[j + 2] = "script"

\* C5 witness: a script tag was returned for a configuration value that holds
\* "</script" and another for an extracted FAQ answer that holds it
C5_Witness ==
    /\ gpc = "structuredData"
    /\ Len(genOut.scripts) >= 2
    /\ HoldsCloseScript(config["SITE_DESCRIPTION"])
    /\ \E i \in DOMAIN genOut.resolved :
          LowerType(genOut.types[genOut.resolved[i]][1]) = "organization"
    /\ \E i \in DOMAIN genOut.resolved :
          /\ LowerType(genOut.types[genOut.resolved[i]][1]) = "faqpage"
          /\ \E k \in DOMAIN FaqItemsFrom(genHtml, 1) :
                HoldsCloseScript(FaqItemsFrom(genHtml, 1)[k].answer)

\* the entries of STRUCTURED_DATA_TYPE: split at the commas, trimmed, empty
\* entries dropped, lower-cased
ConfiguredTypes(env) ==
    LET ts == TrimAndFilter(SplitComma(env["STRUCTURED_DATA_TYPE"], <<>>))
    IN [i \in DOMAIN ts |-> IF Len(ts[i]) = 1 THEN LowerType(ts[i][1]) ELSE "?"]

\* the entry t has what it requires
Resolves(t, env, h) ==
    CASE t = "event" -> Has(env["EVENT_NAME"]) \/ Has(env["SITE_TITLE"])
      [] t = "product" -> Has(env["PRODUCT_NAME"]) \/ Has(env["SITE_TITLE"])
      [] t = "localbusiness" -> Has(env["BUSINESS_NAME"]) \/ Has(env["OG_SITE_NAME"])
      [] t = "organization" ->
            /\ Has(env["ORG_NAME"]) \/ Has(env["OG_SITE_NAME"])
            /\ Has(env["ORG_URL"]) \/ Has(env["OG_URL"])
      [] t = "faqpage" -> FaqItemsFrom(h, 1) # <<>>
      [] OTHER -> FALSE

\* the "@type" a resolved entry writes
SchemaType(t, env) ==
    CASE t = "event" -> "Event"
      [] t = "product" -> "Product"
      [] t = "localbusiness" -> OrElse(env["BUSINESS_TYPE"], <<"LocalBusiness">>)[1]
      [] t = "organization" -> "Organization"
      [] t = "faqpage" -> "FAQPage"
      [] OTHER -> "?"

\* the "@type" of a payload: {"@context":"https://schema.org","@type":"T",...
TypeOfPayload(payload) == payload[9]

\* the positions of the entries that resolve, in configured order
ResolvingEntries(env, h) ==
    LET ts == ConfiguredTypes(env)
    IN Flatten([i \in DOMAIN ts |-> IF Resolves(ts[i], env, h) THEN <<i>> ELSE <<>>])

\* Organization,Unknown,FAQPage
ExampleTypes == <<"Organization", ",", "Unknown", ",", "FAQPage">>

\* C12: generateStructuredData resolves each entry of the comma-separated,
\* trimmed, case-insensitive STRUCTURED_DATA_TYPE list on its own: unknown
\* entries and entries without their required fields are skipped, the result
\* is one JSON-LD script per resolving entry, in configured order, separated
\* by line breaks, each the script the entry gives when configured alone; when
\* no entry resolves (Organization,Unknown,FAQPage with no organization name
\* and no summary/p pair) the result is the empty string.
C12_EntriesIndependent ==
    gpc = "structuredData" =>
        LET ts == ConfiguredTypes(config)
            rs == ResolvingEntries(config, genHtml)
        IN /\ Len(genOut.scripts) = Len(rs)
           /\ genOut.resolved = rs
           /\ \A k \in DOMAIN rs :
                 /\ TypeOfPayload(genOut.scripts[k].payload) = SchemaType(ts[rs[k]], config)
                 /\ <<genOut.scripts[k]>> =
                       GenerateStructuredData(
                           [config EXCEPT !["STRUCTURED_DATA_TYPE"] = genOut.types[rs[k]]],
                           genHtml).scripts
           /\ genOut.text = JoinLines([k \in DOMAIN rs |-> <<genOut.scripts[k]>>])
           /\ rs = <<>> => genOut.text = <<>>
           /\ ( /\ config["STRUCTURED_DATA_TYPE"] = ExampleTypes
                /\ ~Has(config["ORG_NAME"]) /\ ~Has(config["OG_SITE_NAME"])
                /\ FaqItemsFrom(genHtml, 1) = <<>> )
              => genOut.text = <<>>

\* C12 witness: of three configured entries the unknown one in the middle was
\* skipped and the two around it each gave a script
C12_Witness ==
    /\ gpc = "structuredData"
    /\ config["STRUCTURED_DATA_TYPE"] = ExampleTypes
    /\ genOut.resolved = <<1, 3>>
    /\ Len(genOut.scripts) = 2

\* first position in lo..hi of h whose item is one of tags, 0 when none
FirstWithin(h, lo, hi, tags) ==
    LET S == {j \in lo..hi : h[j] \in tags} IN IF S = {} THEN 0 ELSE SetMin(S)

\* the question and answer of the disclosure block that opens at d: its
\* <summary>...</summary> and the <p>...</p> that follows inside the block,
\* both not blank; <<>> when the block has no such pair
BlockEntry(h, d) ==
    LET e == FirstFrom(h, d, {Tag("</details>")})
        so == IF e = 0 THEN 0 ELSE FirstWithin(h, d, e, SummaryOpen)
        sc == IF so = 0 THEN 0 ELSE FirstWithin(h, so + 1, e, SummaryClose)
        po == IF sc = 0 THEN 0 ELSE FirstWithin(h, sc + 1, e, {Tag("<p>")})
        pe == IF po = 0 THEN 0 ELSE FirstWithin(h, po + 1, e, PClose)
    IN IF pe = 0 THEN <<>>
       ELSE LET question == Trim(TextOf(SubSeq(h, so + 1, sc - 1)))
                answer == Trim(TextOf(SubSeq(h, po + 1, pe - 1)))
            IN IF question # <<>> /\ answer # <<>>
               THEN <<[question |-> question, answer |-> answer]>>
               ELSE <<>>

\* one entry per disclosure block of h, in document order
EntriesByBlock(h) ==
    Flatten([d \in DOMAIN h |-> IF h[d] = Tag("<details>") THEN BlockEntry(h, d) ELSE <<>>])

\* the payload of the FAQPage script for the given entries
FaqPayload(entries) ==
    EscapeJsonLd(JObj(SchemaOrg \o Pair("@type", JStr(<<"FAQPage">>))
                      \o Pair("mainEntity", JArr(MapFaq(entries)))))

\* C14: the FAQPage script holds exactly one Question/Answer entry for each
\* disclosure block whose <summary>...</summary> is followed by a <p> in that
\* block, the answer taken from the <p> of the question's own block (a summary
\* without a <p> in its block gives no entry and does not take the <p> of a
\* later block); with no such block there is no FAQPage script.
C14_FaqEntriesPerBlock ==
    gpc = "structuredData" =>
        LET ts == ConfiguredTypes(config)
            entries == EntriesByBlock(genHtml)
        IN \A i \in DOMAIN ts :
              ts[i] = "faqpage" =>
                 IF entries = <<>>
                 THEN \A k \in DOMAIN genOut.resolved : genOut.resolved[k] # i
                 ELSE \E k \in DOMAIN genOut.resolved :
                         /\ genOut.resolved[k] = i
                         /\ genOut.scripts[k].payload = FaqPayload(entries)

----------------------------------------------------------------------------
(* escapeHtml and generateMetaTags.  A value is a sequence of characters; an *)
(* entity the escaping writes is the pair "&", "amp;" (or "lt;", "gt;",      *)
(* "quot;", "#039;"), so that a later pass sees the "&" an earlier one wrote. *)

\* str.replace(/ch/g, repl) for a one-character pattern
ReplaceAll(str, ch, repl) ==
    Flatten([i \in DOMAIN str |-> IF str[i] = ch THEN repl ELSE <<str[i]>>])

\* lines 86-94: the five passes, in the order of the code
EscapeHtml(str) ==
    IF ~Has(str) THEN <<>>
    ELSE LET a == ReplaceAll(str, "&", <<"&", "amp;">>)
             b == ReplaceAll(a, "<", <<"&", "lt;">>)
             c == ReplaceAll(b, ">", <<"&", "gt;">>)
             d == ReplaceAll(c, "\"", <<"&", "quot;">>)
         IN ReplaceAll(d, "'", <<"&", "#039;">>)

\* <meta {attr}="{key}" content="{content}">
Meta(attr, key, content) == [k |-> "meta", attr |-> attr, key |-> key, content |-> content]

\* if (env.X) { tags.push(`<meta ... content="${escapeHtml(env.X)}">`) }
TagIfAlways(value, attr, key) == <<Meta(attr, key, EscapeHtml(value))>>
TagIf(value, attr, key) ==
    IF Has(value) THEN <<Meta(attr, key, EscapeHtml(value))>> ELSE <<>>

\* lines 97-150: the returned string as items, "" as <<>>
GenerateMetaTags(env) ==
    LET tags ==
            TagIf(env["SITE_DESCRIPTION"], "name", "description")
         \o <<Meta("property", "og:type", EscapeHtml(OrElse(env["OG_TYPE"], <<"website">>)))>>
         \o TagIf(env["SITE_TITLE"], "property", "og:title")
         \o TagIf(env["SITE_DESCRIPTION"], "property", "og:description")
         \o TagIf(env["OG_URL"], "property", "og:url")
         \o (IF Has(env["OG_IMAGE_URL"])
             THEN <<Meta("property", "og:image", EscapeHtml(env["OG_IMAGE_URL"])),
                    Meta("property", "og:image:width", OrElse(env["OG_IMAGE_WIDTH"], <<"1200">>)),
                    Meta("property", "og:image:height", OrElse(env["OG_IMAGE_HEIGHT"], <<"630">>))>>
             ELSE <<>>)
         \o TagIf(env["OG_SITE_NAME"], "property", "og:site_name")
         \o <<Meta("property", "og:locale", OrElse(env["OG_LOCALE"], <<"ja_JP">>))>>
         \o <<Meta("name", "twitter:card", OrElse(env["TWITTER_CARD"], <<"summary_large_image">>))>>
         \o TagIf(env["TWITTER_SITE"], "name", "twitter:site")
         \o TagIf(env["SITE_TITLE"], "name", "twitter:title")
         \o TagIf(env["SITE_DESCRIPTION"], "name", "twitter:description")
         \o TagIf(env["OG_IMAGE_URL"], "name", "twitter:image")
    IN IF Len(tags) > 0
       THEN <<Txt("<!-- OGP -->"), Ws>> \o JoinLines([i \in DOMAIN tags |-> <<tags[i]>>])
       ELSE <<>>

----------------------------------------------------------------------------
(* Inputs of generateMetaTags *)

ValTitle == <<"A", "&", "B">>
ValImageUrl == <<"https://x/y.jpg">>
ValMarkup == <<"<", "'", "\"", ">", "&">>

\* the (OG_IMAGE_WIDTH, OG_IMAGE_HEIGHT) pairs
ImageSizes ==
    { <<Absent, Absent>>, <<<<"800">>, <<"600">>>>, <<<<"800">>, Absent>>,
      <<<<"\"", ">">>, Absent>> }

MetaEnvs ==
    { EnvWith([SITE_TITLE |-> a, SITE_DESCRIPTION |-> b, OG_TYPE |-> c, OG_URL |-> d,
               OG_IMAGE_URL |-> e, OG_IMAGE_WIDTH |-> wh[1], OG_IMAGE_HEIGHT |-> wh[2],
               OG_SITE_NAME |-> f, OG_LOCALE |-> g, TWITTER_CARD |-> h, TWITTER_SITE |-> i]) :
        a \in {Absent, ValTitle}, b \in {Absent, ValMarkup}, c \in {Absent, <<"article">>},
        d \in {Absent, ValPlain}, e \in {Absent, ValImageUrl}, wh \in ImageSizes,
        f \in {Absent, ValPlain}, g \in {Absent, <<"en_US">>, ValMarkup},
        h \in {Absent, <<"summary">>}, i \in {Absent, <<"@", "x">>} }

\* {SITE_TITLE: "A&B", OG_IMAGE_URL: "https://x/y.jpg"}
ExampleEnv == EnvWith([SITE_TITLE |-> ValTitle, OG_IMAGE_URL |-> ValImageUrl])

----------------------------------------------------------------------------
(* generateMetaTags as a state machine *)

InitMetaTags ==
    /\ ImagesIdle /\ BuildIdle /\ PageIdle /\ ScanIdle
    /\ config \in MetaEnvs
    /\ genHtml = <<>>
    /\ genOut = <<>>
    /\ gpc = "start"

\* lines 97-150
MetaTags ==
    /\ gpc = "start"
    /\ genOut' = GenerateMetaTags(config)
    /\ gpc' = "metaTags"
    /\ UNCHANGED <<config, genHtml>>
    /\ UNCHANGED <<imgVars, buildVars, pageVars, scanVars>>

NextMetaTags == MetaTags

SpecMetaTags == InitMetaTags /\ [][NextMetaTags]_vars

\* the <meta> tags of text with the given attribute and key
MetasOf(text, attr, key) ==
    {i \in DOMAIN text : text[i].k = "meta" /\ text[i].attr = attr /\ text[i].key = key}

\* the tags that depend on a key: <<attribute, key of the tag, source key>>
ConditionalTags ==
    { <<"name", "description", "SITE_DESCRIPTION">>,
      <<"property", "og:title", "SITE_TITLE">>,
      <<"property", "og:description", "SITE_DESCRIPTION">>,
      <<"property", "og:url", "OG_URL">>,
      <<"property", "og:image", "OG_IMAGE_URL">>,
      <<"property", "og:image:width", "OG_IMAGE_URL">>,
      <<"property", "og:image:height", "OG_IMAGE_URL">>,
      <<"property", "og:site_name", "OG_SITE_NAME">>,
      <<"name", "twitter:site", "TWITTER_SITE">>,
      <<"name", "twitter:title", "SITE_TITLE">>,
      <<"name", "twitter:description", "SITE_DESCRIPTION">>,
      <<"name", "twitter:image", "OG_IMAGE_URL">> }

\* the tags that are always written: <<attribute, key of the tag, source key, default>>
DefaultedTags ==
    { <<"property", "og:type", "OG_TYPE", <<"website">>>>,
      <<"property", "og:locale", "OG_LOCALE", <<"ja_JP">>>>,
      <<"name", "twitter:card", "TWITTER_CARD", <<"summary_large_image">>>> }

\* C10: generateMetaTags writes each tag that depends on a key exactly when the
\* key has a value, always writes og:type, og:locale and twitter:card, with the
\* defaults website, ja_JP and summary_large_image when their key has no value;
\* for {SITE_TITLE: "A&B", OG_IMAGE_URL: "https://x/y.jpg"} it writes og:image
\* with the URL, og:title with content A&amp;B and no twitter:description.
C10_MetaTagsByKey ==
    gpc = "metaTags" =>
        /\ \A t \in ConditionalTags :
              Cardinality(MetasOf(genOut, t[1], t[2])) = IF Has(config[t[3]]) THEN 1 ELSE 0
        /\ \A t \in DefaultedTags :
              /\ Cardinality(MetasOf(genOut, t[1], t[2])) = 1
              /\ ~Has(config[t[3]]) =>
                    \A i \in MetasOf(genOut, t[1], t[2]) : genOut[i].content = t[4]
        /\ config = ExampleEnv =>
              /\ \E i \in DOMAIN genOut :
                    genOut[i] = Meta("property", "og:image", <<"https://x/y.jpg">>)
              /\ \E i \in DOMAIN genOut :
                    genOut[i] = Meta("property", "og:title", <<"A", "&", "amp;", "B">>)
              /\ MetasOf(genOut, "name", "twitter:description") = {}

\* C10 witness: the fragment of the example configuration has been generated
C10_Witness ==
    /\ gpc = "metaTags"
    /\ config = ExampleEnv
    /\ Len(genOut) > 0

\* the second halves of the entities escapeHtml writes
EntityTails == {"amp;", "lt;", "gt;", "quot;", "#039;"}

\* the characters an attribute value must not hold as written
Markup == {"<", ">", "\"", "'"}

\* content holds none of < > " ' and every & in it starts an entity
IsAttributeEscaped(content) ==
    \A i \in DOMAIN content :
        /\ content[i] \notin Markup
        /\ content[i] = "&" => (i < Len(content) /\ content[i + 1] \in EntityTails)

\* C11: every content attribute of the fragment generateMetaTags returns is
\* HTML-attribute-escaped, whatever the configuration values hold, for every
\* interpolated key (OG_LOCALE, TWITTER_CARD, OG_IMAGE_WIDTH and
\* OG_IMAGE_HEIGHT included).
C11_ContentsEscaped ==
    gpc = "metaTags" =>
        \A i \in DOMAIN genOut :
            genOut[i].k = "meta" => IsAttributeEscaped(genOut[i].content)

----------------------------------------------------------------------------
(* generateAnalyticsTags, generateConversionCode, generateFavicons *)

\* a <script> of a provider snippet; ids are the configuration values it holds
Script(s, ids) == [k |-> "script", s |-> s, ids |-> ids]

\* the "/" that closes <img .../> : part of the attribute text after src
SelfClose == Attr("/", "")

\* <img height="1" width="1" style="display:none" src="{src}"/>
NoscriptImg(src) ==
    Img(<<Attr("height", "1"), Attr("width", "1"), Attr("style", "display:none")>>,
        src, <<SelfClose>>)

\* lines 157-168
GoogleSnippet(env) ==
    <<Ws, Txt("<!-- Google Analytics -->"), Ws,
      Script("gtag/js", <<env["GA_MEASUREMENT_ID"]>>), Ws,
      Script("gtag-config",
             <<env["GA_MEASUREMENT_ID"]>>
             \o (IF Has(env["GA_ADS_ID"]) THEN <<env["GA_ADS_ID"]>> ELSE <<>>))>>

\* lines 172-185
MetaPixelSnippet(env) ==
    <<Ws, Txt("<!-- Meta Pixel -->"), Ws,
      Script("fbq", <<env["META_PIXEL_ID"]>>), Ws,
      Tag("<noscript>"),
      NoscriptImg(<<"https://www.facebook.com/tr?id=">> \o env["META_PIXEL_ID"]
                  \o <<"&ev=PageView&noscript=1">>),
      Tag("</noscript>")>>

\* lines 189-200
LineSnippet(env) ==
    <<Ws, Txt("<!-- LINE Tag -->"), Ws,
      Script("_lt", <<env["LINE_TAG_ID"], env["LINE_TAG_ID"]>>), Ws,
      Tag("<noscript>"),
      NoscriptImg(<<"https://tr.line.me/tag.gif?c_t=lap&t_id=">> \o env["LINE_TAG_ID"]
                  \o <<"&e=pv&noscript=1">>),
      Tag("</noscript>")>>

\* lines 204-212
YahooSnippet(env) ==
    <<Ws, Txt("<!-- Yahoo Tag -->"), Ws,
      Script("ytag.js", <<>>), Ws,
      Script("ytag-config", <<env["YAHOO_RETARGETING_ID"]>>)>>

\* lines 216-223
ClaritySnippet(env) ==
    <<Ws, Txt("<!-- Microsoft Clarity -->"), Ws,
      Script("clarity", <<env["CLARITY_PROJECT_ID"]>>)>>

\* lines 153-226
GenerateAnalyticsTags(env) ==
    LET tags ==
            (IF Has(env["GA_MEASUREMENT_ID"]) THEN <<GoogleSnippet(env)>> ELSE <<>>)
         \o (IF Has(env["META_PIXEL_ID"]) THEN <<MetaPixelSnippet(env)>> ELSE <<>>)
         \o (IF Has(env["LINE_TAG_ID"]) THEN <<LineSnippet(env)>> ELSE <<>>)
         \o (IF Has(env["YAHOO_RETARGETING_ID"]) THEN <<YahooSnippet(env)>> ELSE <<>>)
         \o (IF Has(env["CLARITY_PROJECT_ID"]) THEN <<ClaritySnippet(env)>> ELSE <<>>)
    IN JoinLines(tags)

\* one pushed piece of the generated script; args are the values it holds
Code(s, args) == [k |-> "code", s |-> s, args |-> args]

\* a value of timePoints: a number, or null (JSON.stringify of NaN)
Seconds(n) == [null |-> FALSE, n |-> n]
NullSeconds == [null |-> TRUE, n |-> 0]

\* the tokens that are decimal numbers
NumberTokens == {"1", "2", "3"}
NumberOf(tok) == CASE tok = "1" -> 1 [] tok = "2" -> 2 [] OTHER -> 3

\* parseInt(t.trim(), 10) followed by JSON.stringify: the leading number, or
\* null when the text does not start with one
ParseInt(t) ==
    LET cs == Trim(t) IN
    IF cs # <<>> /\ Head(cs) \in NumberTokens THEN Seconds(NumberOf(Head(cs))) ELSE NullSeconds

\* env.TRACK_TIME_ON_PAGE.split(",").map((t) => parseInt(t.trim(), 10))
TimePoints(value) ==
    LET parts == SplitComma(value, <<>>) IN [i \in DOMAIN parts |-> ParseInt(parts[i])]

\* var timeTracked = {}; var timePoints = [...]; setInterval(...)
TimeTracker(times) == [k |-> "code", s |-> "time-tracker", timePoints |-> times]

\* lines 427-515
GenerateConversionCode(env) ==
       <<Code("click-open", <<>>)>>
    \o (IF Has(env["GA_MEASUREMENT_ID"]) THEN <<Code("click-gtag-event", <<>>)>> ELSE <<>>)
    \o (IF Has(env["GA_ADS_ID"]) /\ Has(env["GA_ADS_CONVERSION_LABEL"])
        THEN <<Code("click-gtag-conversion",
                    <<env["GA_ADS_ID"], env["GA_ADS_CONVERSION_LABEL"]>>)>>
        ELSE <<>>)
    \o (IF Has(env["META_PIXEL_ID"]) THEN <<Code("click-fbq", <<>>)>> ELSE <<>>)
    \o (IF Has(env["LINE_TAG_ID"]) THEN <<Code("click-_lt", <<>>)>> ELSE <<>>)
    \o (IF Has(env["YAHOO_CONVERSION_ID"]) /\ Has(env["YAHOO_CONVERSION_LABEL"])
        THEN <<Code("click-ytag",
                    <<env["YAHOO_CONVERSION_ID"], env["YAHOO_CONVERSION_LABEL"]>>)>>
        ELSE <<>>)
    \o <<Code("click-close", <<>>)>>
    \o (IF env["TRACK_SCROLL_DEPTH"] = <<"true">> /\ Has(env["GA_MEASUREMENT_ID"])
        THEN <<Code("scroll-tracker", <<>>)>> ELSE <<>>)
    \o (IF Has(env["TRACK_TIME_ON_PAGE"]) /\ Has(env["GA_MEASUREMENT_ID"])
        THEN <<TimeTracker(TimePoints(env["TRACK_TIME_ON_PAGE"]))>> ELSE <<>>)
    \o <<Code("iife-close", <<>>)>>

\* <link rel=".." sizes=".." href="..">   ("" : the attribute is not written)
Link(rel, sizes, href) == [k |-> "link", rel |-> rel, sizes |-> sizes, href |-> href]

\* lines 678-688: the string generateFavicons returns when favicon.png exists
FaviconLinks(bp) ==
    LET prefix == NormalizePrefix(bp) IN
    <<Txt("<!-- Favicon -->"), Ws,
      Link("icon", "", prefix \o <<"/favicon.ico">>), Ws,
      Link("icon", "16x16", prefix \o <<"/favicon-16x16.png">>), Ws,
      Link("icon", "32x32", prefix \o <<"/favicon-32x32.png">>), Ws,
      Link("apple-touch-icon", "180x180", prefix \o <<"/apple-touch-icon.png">>)>>

\* the files generateFavicons writes (lines 661-675)
FaviconFiles ==
    {"favicon-16x16.png", "favicon-32x32.png", "apple-touch-icon.png",
     "android-chrome-192x192.png", "android-chrome-512x512.png", "favicon.ico"}

----------------------------------------------------------------------------
(* The HTML stage of build(): lines 784-817 *)

HeadOpen == Tag("<head>")
HeadClose == Tag("</head>")
\* <title>{content}</title>
Title(content) == [k |-> "title", content |-> content]
\* <script src="{src}"></script>
ScriptSrc(src) == [k |-> "scriptsrc", src |-> src]

\* first position of h that satisfies the set of positions S, 0 when none
FirstOf(S) == IF S = {} THEN 0 ELSE SetMin(S)

\* lines 786-788: html.replace(/<title>[^<]*<\/title>/i, `<title>${...}</title>`)
ReplaceTitle(h, env) ==
    LET i == FirstOf({j \in DOMAIN h :
                 /\ h[j].k = "title"
                 /\ \A n \in DOMAIN h[j].content : h[j].content[n] # "<"})
    IN IF ~Has(env["SITE_TITLE"]) \/ i = 0 THEN h
       ELSE [h EXCEPT ![i] =
                Title(ExpandChars(EscapeHtml(env["SITE_TITLE"]),
                                  <<"<title>">> \o h[i].content \o <<"</title>">>,
                                  AsChars(SubSeq(h, 1, i - 1)),
                                  AsChars(SubSeq(h, i + 1, Len(h)))))]

\* html.replace("</head>", `${fragment}\n</head>`)
InjectBeforeHeadNonEmpty(h, fragment) ==
    IF fragment = <<>> THEN h
    ELSE StringReplace(h, HeadClose, fragment \o <<Ws, HeadClose>>)
InjectBeforeHead(h, fragment) ==
    StringReplace(h, HeadClose, fragment \o <<Ws, HeadClose>>)

\* lines 814-815
CssHref(bp) == IF bp # <<>> THEN bp \o <<"/style.min.css">> ELSE <<"style.min.css">>
JsHref(bp) == IF bp # <<>> THEN bp \o <<"/script.min.js">> ELSE <<"script.min.js">>

\* line 816: html.replace('href="style.css"', `href="${cssHref}"`)
ReplaceCssRef(h, cssHref) ==
    LET i == FirstOf({j \in DOMAIN h : h[j].k = "link" /\ h[j].href = <<"style.css">>})
    IN IF i = 0 THEN h
       ELSE [h EXCEPT ![i].href =
                ExpandChars(cssHref, <<"href=\"style.css\"">>,
                            AsChars(SubSeq(h, 1, i - 1)), AsChars(SubSeq(h, i + 1, Len(h))))]

\* line 817: html.replace('src="script.js"', `src="${jsHref}"`)
ReplaceJsRef(h, jsHref) ==
    LET i == FirstOf({j \in DOMAIN h : h[j].k = "scriptsrc" /\ h[j].src = <<"script.js">>})
    IN IF i = 0 THEN h
       ELSE [h EXCEPT ![i].src =
                ExpandChars(jsHref, <<"src=\"script.js\"">>,
                            AsChars(SubSeq(h, 1, i - 1)), AsChars(SubSeq(h, i + 1, Len(h))))]

\* lines 786-801: the title and the three injections that do not read html
AssembleHead(doc, env, favicon) ==
    LET titled == ReplaceTitle(doc, env)
        withMeta == InjectBeforeHead(titled, GenerateMetaTags(env))
        withAnalytics == InjectBeforeHead(withMeta, GenerateAnalyticsTags(env))
    IN IF favicon # <<>> THEN InjectBeforeHead(withAnalytics, favicon) ELSE withAnalytics

\* lines 805-817: structuredData is what generateStructuredData returned for
\* dataInput, imagesInput the html handed to processImages
AssembleBody(env, dataInput, structuredData, dims, bp, sp) ==
    LET withData == IF structuredData.text # <<>>
                    THEN InjectBeforeHead(dataInput, structuredData.text)
                    ELSE dataInput
    IN [metaTags |-> GenerateMetaTags(env),
        analyticsTags |-> GenerateAnalyticsTags(env),
        structuredData |-> structuredData.text,
        warns |-> structuredData.warns,
        dataInput |-> dataInput,
        imagesInput |-> withData,
        html |-> ReplaceJsRef(ReplaceCssRef(ProcessImages(withData, dims, bp, sp),
                                            CssHref(bp)), JsHref(bp))]

\* line 804
AssembleData(env, dataInput, dims, bp, sp) ==
    AssembleBody(env, dataInput, GenerateStructuredData(env, dataInput), dims, bp, sp)

\* lines 784-817: the values of the HTML stage, html being the document that
\* is handed to minifyHtml
AssembleHtml(doc, env, favicon, dims, bp, sp) ==
    AssembleData(env, AssembleHead(doc, env, favicon), dims, bp, sp)

----------------------------------------------------------------------------
(* Inputs of build() *)

StyleLink == Link("stylesheet", "", <<"style.css">>)

DocPlain ==
    <<HeadOpen, Title(<<"t">>), StyleLink, HeadClose, ImgHero, ImgBanner,
      ScriptSrc(<<"script.js">>)>>
DocNoHead == <<Title(<<"t">>), ImgHero, Txt("a"), ImgBanner>>
DocTwoHeads ==
    <<HeadOpen, Txt("<!--"), HeadClose, Txt("-->"), StyleLink, StyleLink, HeadClose,
      ImgHero>>
DocFaq ==
    <<HeadOpen, Title(<<"t">>), HeadClose>>
    \o Details(<<Txt("Q1")>>, <<Tag("<p>"), Txt("A1"), Tag("</p>")>>)
    \o <<PicOpen, ImgHero, PicClose, ImgIcon, ImgHero, ScriptSrc(<<"script.js">>)>>
DocEager == <<HeadOpen, HeadClose, ImgIcon, ImgHero, ScriptSrc(<<"script.js">>)>>

BuildDocs == {DocPlain, DocNoHead, DocTwoHeads, DocFaq, DocEager}

EnvAllProviders ==
    EnvWith([GA_MEASUREMENT_ID |-> <<"G-1">>, GA_ADS_ID |-> <<"AW-1">>,
             GA_ADS_CONVERSION_LABEL |-> ValPlain, META_PIXEL_ID |-> ValPlain,
             LINE_TAG_ID |-> ValPlain, YAHOO_RETARGETING_ID |-> ValPlain,
             YAHOO_CONVERSION_ID |-> ValPlain, YAHOO_CONVERSION_LABEL |-> ValPlain,
             CLARITY_PROJECT_ID |-> ValPlain, TRACK_SCROLL_DEPTH |-> <<"true">>,
             TRACK_TIME_ON_PAGE |-> <<"1", ",", " ", "2">>,
             BASE_PATH |-> <<"/campaign", "/">>])
EnvLineAndData ==
    EnvWith([LINE_TAG_ID |-> ValPlain, OG_SITE_NAME |-> ValPlain, OG_URL |-> ValPlain,
             STRUCTURED_DATA_TYPE |-> <<"Organization", ",", "FAQPage">>])
EnvDollar ==
    EnvWith([SITE_TITLE |-> <<"$", "$", "&">>, OG_LOCALE |-> <<"$", "$", "$", Grave>>,
             STRUCTURED_DATA_TYPE |-> <<"faqpage">>, BASE_PATH |-> <<"/campaign">>])
EnvTimeOnly ==
    EnvWith([GA_MEASUREMENT_ID |-> <<"G-1">>, TRACK_SCROLL_DEPTH |-> <<"TRUE">>,
             TRACK_TIME_ON_PAGE |-> <<"x", ",", "1", ",", "1">>])

BuildEnvs == {EmptyEnv, ExampleEnv, EnvAllProviders, EnvLineAndData, EnvDollar, EnvTimeOnly}

\* the source trees: index.html, .image-dimensions.json, images/ with its
\* -sp files, images/favicon.png, .htaccess, .env
SrcTrees ==
    { [indexHtml |-> d, dims |-> i.dims, images |-> i.images, spFiles |-> i.spFiles,
       favicon |-> i.favicon, htaccess |-> i.htaccess, envFile |-> e] :
        d \in BuildDocs,
        i \in { [dims |-> DimsNone, images |-> FALSE, spFiles |-> {},
                 favicon |-> FALSE, htaccess |-> FALSE],
                [dims |-> DimsTwo, images |-> TRUE, spFiles |-> {HeroJpg},
                 favicon |-> TRUE, htaccess |-> TRUE],
                [dims |-> DimsHero, images |-> TRUE, spFiles |-> {},
                 favicon |-> FALSE, htaccess |-> TRUE],
                [dims |-> DimsNone, images |-> TRUE, spFiles |-> {Tail(BannerPng)},
                 favicon |-> TRUE, htaccess |-> FALSE] },
        e \in BOOLEAN }

----------------------------------------------------------------------------
(* build() as a state machine: one action per awaited step *)

\* console output
NoteNoEnv == "Note: .env file not found, using defaults"
NoteBasePath == "Using BASE_PATH"
NoteImages == "Images copied"
NoteNoImages == "No images directory"
NoteNoFavicon == "favicon.png not found, skipping favicon generation"
NoteFavicon == "Favicon generated"
NoteFaviconSkipped == "Favicon generation skipped"
NoteHtaccess == ".htaccess copied"
NoteHtml == "HTML optimized"
NoteHtmlFailed == "HTML optimization failed"
NoteCss == "CSS optimized"
NoteCssFailed == "CSS optimization failed"
NoteJs == "JS optimized (transpiled + minified)"
NoteJsFailed == "JS optimization failed"
NoteComplete == "Build complete! Output: build/"
NoteBuildFailed == "Build failed"

\* an awaited call whose rejection would be dropped (not what build() does)
UncaughtIgnored(ok, next) == next

\* where build() goes after an awaited call that is outside every try block:
\* a rejection rejects build()
Uncaught(ok, next) == IF ok THEN next ELSE "rejected"

\* where build() goes after a try/catch block: the catch clause writes a
\* notice and the function continues
Rethrown(ok, next) == IF ok THEN next ELSE "rejected"
Caught(ok, next) == next

\* a removal that leaves the directory as it is (not what fs.rm does)
ClearedNothing(dir, ok) == dir

\* fs.rm(buildDir, { recursive: true, force: true }): the directory and all it
\* holds are gone when the call succeeds
Cleared(dir, ok) == IF ok THEN {} ELSE dir

\* what can go wrong inside a stage: reading the source file, transforming
\* it (the generators, the minifier, the transpiler), writing the artifact
StageFaults == {"none", "read", "transform", "write"}

InitBuild ==
    /\ ImagesIdle /\ GenIdle /\ PageIdle /\ ScanIdle
    /\ config \in BuildEnvs
    /\ srcTree \in SrcTrees
    /\ ~srcTree.envFile => config = EmptyEnv
    /\ buildDir = {"index.html", "stale.html"}
    /\ bpc = "start"
    /\ buildBasePath = <<>>
    /\ buildSpImages = {}
    /\ faviconTags = <<>>
    /\ assembly = <<>>
    /\ conversionCode = <<>>
    /\ started = <<>>
    /\ faults = {}
    /\ log = <<>>
    /\ exitCode = 0

\* lines 732-740: loadEnv, loadImageDimensions, basePath
Load ==
    /\ bpc = "start"
    /\ buildBasePath' = NormalizePrefix(config["BASE_PATH"])
    /\ log' = log \o (IF srcTree.envFile THEN <<>> ELSE <<NoteNoEnv>>)
                  \o (IF buildBasePath' # <<>> THEN <<NoteBasePath>> ELSE <<>>)
    /\ bpc' = "rm"
    /\ UNCHANGED <<srcTree, buildDir, buildSpImages, faviconTags, assembly, conversionCode,
                   started, faults, exitCode>>
    /\ UNCHANGED <<config, imgVars, genVars, pageVars, scanVars>>

\* line 742: await fs.rm(buildDir, { recursive: true, force: true })
RemoveBuildDir ==
    /\ bpc = "rm"
    /\ started' = Append(started, "rm")
    /\ \E ok \in BOOLEAN :
          /\ buildDir' = Cleared(buildDir, ok)
          /\ faults' = IF ok THEN faults ELSE faults \cup {"rm"}
          /\ bpc' = Uncaught(ok, "mkdir")
    /\ UNCHANGED <<srcTree, buildBasePath, buildSpImages, faviconTags, assembly,
                   conversionCode, log, exitCode>>
    /\ UNCHANGED <<config, imgVars, genVars, pageVars, scanVars>>

\* line 743: await fs.mkdir(buildDir, { recursive: true })
MakeBuildDir ==
    /\ bpc = "mkdir"
    /\ started' = Append(started, "mkdir")
    /\ \E ok \in BOOLEAN :
          /\ faults' = IF ok THEN faults ELSE faults \cup {"mkdir"}
          /\ bpc' = Uncaught(ok, "images")
    /\ UNCHANGED <<srcTree, buildDir, buildBasePath, buildSpImages, faviconTags, assembly,
                   conversionCode, log, exitCode>>
    /\ UNCHANGED <<config, imgVars, genVars, pageVars, scanVars>>

\* lines 746-760: copy images/ and detect the SP images
CopyImages ==
    /\ bpc = "images"
    /\ started' = Append(started, "images")
    /\ \E ok \in BOOLEAN :
          IF srcTree.images /\ ok
          THEN /\ buildDir' = buildDir \cup {"images/"}
               /\ buildSpImages' = srcTree.spFiles
               /\ log' = Append(log, NoteImages)
               /\ faults' = faults
          ELSE /\ buildDir' \in {buildDir} \cup (IF srcTree.images THEN {buildDir \cup {"images/"}} ELSE {})
               /\ buildSpImages' = {}
               /\ log' = Append(log, NoteNoImages)
               /\ faults' = IF srcTree.images THEN faults \cup {"images"} ELSE faults
    /\ bpc' = Caught(TRUE, "favicon")
    /\ UNCHANGED <<srcTree, buildBasePath, faviconTags, assembly, conversionCode, exitCode>>
    /\ UNCHANGED <<config, imgVars, genVars, pageVars, scanVars>>

\* lines 763-768 with generateFavicons (650-689)
Favicons ==
    /\ bpc = "favicon"
    /\ started' = Append(started, "favicon")
    /\ \E ok \in BOOLEAN :
          IF ~srcTree.favicon
          THEN /\ faviconTags' = <<>>
               /\ buildDir' = buildDir
               /\ log' = Append(log, NoteNoFavicon)
               /\ faults' = faults
          ELSE IF ok
          THEN /\ faviconTags' = FaviconLinks(buildBasePath)
               /\ buildDir' = buildDir \cup FaviconFiles
               /\ log' = Append(log, NoteFavicon)
               /\ faults' = faults
          ELSE /\ faviconTags' = <<>>
               /\ buildDir' \in {buildDir, buildDir \cup {"favicon-16x16.png"}}
               /\ log' = Append(log, NoteFaviconSkipped)
               /\ faults' = faults \cup {"favicon"}
    /\ bpc' = Caught(TRUE, "htaccess")
    /\ UNCHANGED <<srcTree, buildBasePath, buildSpImages, assembly, conversionCode, exitCode>>
    /\ UNCHANGED <<config, imgVars, genVars, pageVars, scanVars>>

\* lines 770-778
Htaccess ==
    /\ bpc = "htaccess"
    /\ started' = Append(started, "htaccess")
    /\ IF srcTree.htaccess
       THEN \E ok \in BOOLEAN :
               /\ buildDir' = IF ok THEN buildDir \cup {".htaccess"} ELSE buildDir
               /\ log' = IF ok THEN Append(log, NoteHtaccess) ELSE log
               /\ faults' = IF ok THEN faults ELSE faults \cup {"htaccess"}
       ELSE UNCHANGED <<buildDir, log, faults>>
    /\ bpc' = Caught(TRUE, "html")
    /\ UNCHANGED <<srcTree, buildBasePath, buildSpImages, faviconTags, assembly,
                   conversionCode, exitCode>>
    /\ UNCHANGED <<config, imgVars, genVars, pageVars, scanVars>>

\* lines 780-835: the HTML stage
HtmlStage ==
    /\ bpc = "html"
    /\ started' = Append(started, "html")
    /\ \E fault \in StageFaults :
          /\ assembly' = IF fault = "read" THEN assembly
                         ELSE AssembleHtml(srcTree.indexHtml, config, faviconTags,
                                           srcTree.dims, buildBasePath, buildSpImages)
          /\ buildDir' = IF fault = "none" THEN buildDir \cup {"index.html"} ELSE buildDir
          /\ log' = log \o (IF fault = "read" THEN <<>> ELSE assembly'.warns)
                        \o <<IF fault = "none" THEN NoteHtml ELSE NoteHtmlFailed>>
          /\ faults' = IF fault = "none" THEN faults ELSE faults \cup {"html"}
          /\ bpc' = Caught(fault = "none", "css")
    /\ UNCHANGED <<srcTree, buildBasePath, buildSpImages, faviconTags, conversionCode, exitCode>>
    /\ UNCHANGED <<config, imgVars, genVars, pageVars, scanVars>>

\* lines 837-845 with optimizeCss (692-696)
CssStage ==
    /\ bpc = "css"
    /\ started' = Append(started, "css")
    /\ \E fault \in StageFaults :
          /\ buildDir' = IF fault = "none" THEN buildDir \cup {"style.min.css"} ELSE buildDir
          /\ log' = Append(log, IF fault = "none" THEN NoteCss ELSE NoteCssFailed)
          /\ faults' = IF fault = "none" THEN faults ELSE faults \cup {"css"}
          /\ bpc' = Caught(fault = "none", "js")
    /\ UNCHANGED <<srcTree, buildBasePath, buildSpImages, faviconTags, assembly,
                   conversionCode, exitCode>>
    /\ UNCHANGED <<config, imgVars, genVars, pageVars, scanVars>>

\* lines 847-855 with optimizeJs (699-726)
JsStage ==
    /\ bpc = "js"
    /\ started' = Append(started, "js")
    /\ \E fault \in StageFaults :
          /\ conversionCode' = IF fault = "read" THEN conversionCode
                               ELSE GenerateConversionCode(config)
          /\ buildDir' = IF fault = "none" THEN buildDir \cup {"script.min.js"} ELSE buildDir
          /\ log' = Append(log, IF fault = "none" THEN NoteJs ELSE NoteJsFailed)
          /\ faults' = IF fault = "none" THEN faults ELSE faults \cup {"js"}
          /\ bpc' = Caught(fault = "none", "complete")
    /\ UNCHANGED <<srcTree, buildBasePath, buildSpImages, faviconTags, assembly, exitCode>>
    /\ UNCHANGED <<config, imgVars, genVars, pageVars, scanVars>>

\* line 857, then the process ends with the default status
Complete ==
    /\ bpc = "complete"
    /\ log' = Append(log, NoteComplete)
    /\ exitCode' = 0
    /\ bpc' = "exited"
    /\ UNCHANGED <<srcTree, buildDir, buildBasePath, buildSpImages, faviconTags, assembly,
                   conversionCode, started, faults>>
    /\ UNCHANGED <<config, imgVars, genVars, pageVars, scanVars>>

\* lines 860-863: build().catch(... process.exit(1))
Rejected ==
    /\ bpc = "rejected"
    /\ log' = Append(log, NoteBuildFailed)
    /\ exitCode' = 1
    /\ bpc' = "exited"
    /\ UNCHANGED <<srcTree, buildDir, buildBasePath, buildSpImages, faviconTags, assembly,
                   conversionCode, started, faults>>
    /\ UNCHANGED <<config, imgVars, genVars, pageVars, scanVars>>

NextBuild ==
    \/ Load \/ RemoveBuildDir \/ MakeBuildDir \/ CopyImages \/ Favicons \/ Htaccess
    \/ HtmlStage \/ CssStage \/ JsStage \/ Complete \/ Rejected

SpecBuild == InitBuild /\ [][NextBuild]_vars

----------------------------------------------------------------------------
(* Properties of build() *)

Range(f) == {f[i] : i \in DOMAIN f}

\* the meta/OGP fragment of a configuration without any key
DefaultMetaFragment ==
    <<Txt("<!-- OGP -->"), Ws,
      Meta("property", "og:type", <<"website">>), Ws,
      Meta("property", "og:locale", <<"ja_JP">>), Ws,
      Meta("name", "twitter:card", <<"summary_large_image">>)>>

\* the script generateConversionCode writes without any key: the click
\* handler without a provider call, no tracker
BareConversionCode ==
    <<Code("click-open", <<>>), Code("click-close", <<>>), Code("iife-close", <<>>)>>

\* doc with the items ins put before its first </head>
InsertedBeforeFirstHead(doc, ins) ==
    IF \E i \in DOMAIN doc : doc[i] = HeadClose
    THEN LET i == CHOOSE i \in DOMAIN doc :
                     doc[i] = HeadClose /\ \A j \in 1..(i - 1) : doc[j] # HeadClose
         IN SubSeq(doc, 1, i - 1) \o ins \o SubSeq(doc, i, Len(doc))
    ELSE doc

\* doc with its first href="style.css" and its first src="script.js" pointing
\* to the minified files
MinifiedRefs(doc) ==
    [i \in DOMAIN doc |->
        IF doc[i] = StyleLink /\ \A j \in 1..(i - 1) : doc[j] # StyleLink
        THEN Link("stylesheet", "", <<"style.min.css">>)
        ELSE IF doc[i] = ScriptSrc(<<"script.js">>)
                /\ \A j \in 1..(i - 1) : doc[j] # ScriptSrc(<<"script.js">>)
        THEN ScriptSrc(<<"script.min.js">>)
        ELSE doc[i]]

StepOrder == <<"rm", "mkdir", "images", "favicon", "htaccess", "html", "css", "js">>

\* the steps that write artifacts
WritingSteps == {"images", "favicon", "htaccess", "html", "css", "js"}

\* what a run can write into the output directory
Artifacts ==
    {"images/", ".htaccess", "index.html", "style.min.css", "script.min.js"} \cup FaviconFiles

\* the run is past the clear: fs.rm and fs.mkdir have both succeeded
PastClear == Range(started) \cap WritingSteps # {}

\* the steps have been started one after another in the order of the code, a
\* writing step only after the clear has succeeded, and what the directory
\* holds after the clear was written by this run
OrderedSteps ==
    /\ \E n \in 0..Len(StepOrder) : started = SubSeq(StepOrder, 1, n)
    /\ PastClear => /\ faults \cap {"rm", "mkdir"} = {}
                    /\ buildDir \subseteq Artifacts
                    /\ "stale.html" \notin buildDir
    /\ ~PastClear => buildDir \in {{}, {"index.html", "stale.html"}}

\* a step changes the output directory only by the clear, which empties it
\* before any writing step has started, or by adding this step's artifacts
\* after the clear
WritesAfterClear ==
    buildDir' # buildDir =>
        \/ bpc = "rm" /\ buildDir' = {} /\ started = <<>>
        \/ /\ bpc \in WritingSteps
           /\ {"rm", "mkdir"} \subseteq Range(started)
           /\ faults \cap {"rm", "mkdir"} = {}
           /\ buildDir \subseteq buildDir'

\* C16: the output directory is removed and recreated before any artifact
\* is written, every write into it (images, favicons, .htaccess, index.html,
\* style.min.css, script.min.js) happens after the clear has succeeded, the
\* steps run one after another in the order of the code, and nothing written
\* during the run is deleted by the clear.
C16_ClearBeforeWrites == []OrderedSteps /\ [][WritesAfterClear]_vars

\* C16 witness: a run has ended with every artifact written and nothing left
\* of the previous output
C16_Witness ==
    /\ bpc = "exited"
    /\ exitCode = 0
    /\ {"images/", "favicon.ico", ".htaccess", "index.html", "style.min.css",
        "script.min.js"} \subseteq buildDir
    /\ "stale.html" \notin buildDir
    /\ started = StepOrder

\* the first segments of the src of the <img> tags the analytics snippets hold
TrackerHeads == {"https://www.facebook.com/tr?id=", "https://tr.line.me/tag.gif?c_t=lap&t_id="}

\* the positions of the <img> tags of the author in a document: every <img>
\* with a src, those of the analytics snippets left out
AuthorImgs(doc) ==
    {i \in DOMAIN doc : doc[i].k = "img" /\ doc[i].src # <<>> /\ Head(doc[i].src) \notin TrackerHeads}

\* the <img> carries loading="lazy"
IsLazy(x) == Attr("loading", "lazy") \in Range(x.before \o x.after)

\* C17: whatever the configuration (analytics snippets with <noscript><img>
\* included), the first <img> the author wrote in the source document does
\* not receive loading="lazy" in the assembled document.
C17_FirstAuthorImgNotLazy ==
    (assembly # <<>> /\ AuthorImgs(srcTree.indexHtml) # {}) =>
        /\ AuthorImgs(assembly.html) # {}
        /\ IsLazy(assembly.html[SetMin(AuthorImgs(assembly.html))])
              => IsLazy(srcTree.indexHtml[SetMin(AuthorImgs(srcTree.indexHtml))])

\* the number of literal </head> in the document
HeadCloses(doc) == Cardinality({i \in DOMAIN doc : doc[i] = HeadClose})

\* a fragment and its line break when the fragment is not empty
Line(fragment) == IF fragment # <<>> THEN fragment \o <<Ws>> ELSE <<>>

\* C15: for a document with exactly one literal </head>, generateStructuredData
\* reads the document with the meta/OGP, analytics and favicon fragments put
\* before </head> as generated, in this order, and with no <img> rewritten;
\* processImages then receives that document with the structured-data
\* fragment put last before </head>, as generated.
C15_InjectionOrder ==
    (assembly # <<>> /\ HeadCloses(srcTree.indexHtml) = 1) =>
        LET base == ReplaceTitle(srcTree.indexHtml, config)
            three == assembly.metaTags \o <<Ws>> \o assembly.analyticsTags \o <<Ws>>
                     \o Line(faviconTags)
        IN /\ assembly.metaTags = GenerateMetaTags(config)
           /\ assembly.analyticsTags = GenerateAnalyticsTags(config)
           /\ assembly.dataInput = InsertedBeforeFirstHead(base, three)
           /\ assembly.structuredData
                 = GenerateStructuredData(config, assembly.dataInput).text
           /\ assembly.imagesInput
                 = InsertedBeforeFirstHead(base, three \o Line(assembly.structuredData))

IsStage(step) == step \in {"html", "css", "js"}
Stages == <<"html", "css", "js">>
FailureNotice(stage) ==
    CASE stage = "html" -> NoteHtmlFailed [] stage = "css" -> NoteCssFailed [] OTHER -> NoteJsFailed
SuccessNotice(stage) ==
    CASE stage = "html" -> NoteHtml [] stage = "css" -> NoteCss [] OTHER -> NoteJs
Artifact(stage) ==
    CASE stage = "html" -> "index.html" [] stage = "css" -> "style.min.css"
      [] OTHER -> "script.min.js"

\* C7: the stages are started in the order HTML, CSS, JS, each at most once,
\* and all three once the run that reached them has ended, whatever failed; a
\* stage that failed has written the notice that names it, a stage that did
\* not fail has written its artifact and its notice, whatever the stages
\* before it did.
C7_StageIsolation ==
    /\ \E n \in 0..3 : SelectSeq(started, IsStage) = SubSeq(Stages, 1, n)
    /\ (bpc = "exited" /\ faults \cap {"rm", "mkdir"} = {}) =>
          SelectSeq(started, IsStage) = Stages
    /\ \A i \in DOMAIN Stages :
          Stages[i] \in Range(started) =>
              IF Stages[i] \in faults
              THEN /\ FailureNotice(Stages[i]) \in Range(log)
                   /\ SuccessNotice(Stages[i]) \notin Range(log)
              ELSE /\ Artifact(Stages[i]) \in buildDir
                   /\ SuccessNotice(Stages[i]) \in Range(log)
                   /\ FailureNotice(Stages[i]) \notin Range(log)

\* C7 witness: the HTML and the CSS stage failed and the JS stage wrote its
\* artifact
C7_Witness ==
    /\ bpc = "exited"
    /\ {"html", "css"} \subseteq faults
    /\ "js" \notin faults
    /\ "script.min.js" \in buildDir
    /\ "index.html" \notin buildDir
    /\ NoteHtmlFailed \in Range(log)

\* C8: when removing or creating the output directory fails the run ends with
\* a non-zero exit status and no later step (image copy, favicon, .htaccess,
\* HTML, CSS, JS) has been started; when both succeed the exit status is zero,
\* whatever failed afterwards.
C8_ExitStatus ==
    /\ bpc # "exited" => exitCode = 0
    /\ bpc = "exited" =>
          IF faults \cap {"rm", "mkdir"} # {}
          THEN /\ exitCode # 0
               /\ Range(started) \subseteq {"rm", "mkdir"}
               /\ assembly = <<>> /\ conversionCode = <<>> /\ faviconTags = <<>>
               /\ NoteBuildFailed \in Range(log)
          ELSE exitCode = 0

\* C8 witness: creating the output directory failed and the process has exited
C8_Witness ==
    /\ bpc = "exited"
    /\ "mkdir" \in faults
    /\ exitCode = 1

----------------------------------------------------------------------------
(* The script generateConversionCode writes, running in a page: the scroll  *)
(* listener (lines 479-491) and the interval callback (lines 497-510)       *)

\* gtag('event', 'scroll_depth', { depth: point })
ScrollEvent(point) == [name |-> "scroll_depth", depth |-> point]
\* gtag('event', 'time_on_page', { seconds: seconds })
TimeEvent(seconds) == [name |-> "time_on_page", seconds |-> seconds]

\* [25, 50, 75, 90]
ScrollPoints == <<25, 50, 75, 90>>

\* tracked[key] = true
MarkNothing(tracked, key) == tracked
Mark(tracked, key) == tracked \cup {key}

\* a tracker that calls gtag without testing it
ReportAlways(events, gtag, event) == Append(events, event)

\* if (typeof gtag === 'function') { gtag('event', ...); }
Report(events, gtag, event) == IF gtag THEN Append(events, event) ELSE events

\* elapsed >= seconds, null being converted to 0
TimeReached(elapsed, seconds) == IF seconds.null THEN elapsed >= 0 ELSE elapsed >= seconds.n

\* [25, 50, 75, 90].forEach(function(point) { ... }) from the i-th point on;
\* st = [tracked, sent]
RECURSIVE ScrollLoop(_, _, _, _)
ScrollLoop(i, scrollPercent, gtag, st) ==
    IF i > Len(ScrollPoints) THEN st
    ELSE LET point == ScrollPoints[i] IN
         IF scrollPercent >= point /\ point \notin st.tracked
         THEN ScrollLoop(i + 1, scrollPercent, gtag,
                  [tracked |-> Mark(st.tracked, point),
                   sent |-> Report(st.sent, gtag, ScrollEvent(point))])
         ELSE ScrollLoop(i + 1, scrollPercent, gtag, st)

\* timePoints.forEach(function(seconds) { ... }) from the i-th entry on; the
\* key of timeTracked is the entry as a string, "null" for null
RECURSIVE TimeLoop(_, _, _, _, _)
TimeLoop(timePoints, i, elapsed, gtag, st) ==
    IF i > Len(timePoints) THEN st
    ELSE LET seconds == timePoints[i] IN
         IF TimeReached(elapsed, seconds) /\ seconds \notin st.tracked
         THEN TimeLoop(timePoints, i + 1, elapsed, gtag,
                  [tracked |-> Mark(st.tracked, seconds),
                   sent |-> Report(st.sent, gtag, TimeEvent(seconds))])
         ELSE TimeLoop(timePoints, i + 1, elapsed, gtag, st)

\* the script holds the scroll listener
HasScrollTracker(code) == \E i \in DOMAIN code : code[i] = Code("scroll-tracker", <<>>)
\* the script holds the interval callback
HasTimeTracker(code) == \E i \in DOMAIN code : code[i].s = "time-tracker"
\* var timePoints = [...]
TimePointsOf(code) == code[CHOOSE i \in DOMAIN code : code[i].s = "time-tracker"].timePoints

\* values of Math.floor((scrollY + innerHeight) / scrollHeight * 100)
ScrollPercents == {10, 60, 100}

\* TRACK_TIME_ON_PAGE values
TimeLists ==
    { Absent, <<"1", ",", "2">>, <<"x", ",", "1", ",", "1">>, <<" ", "2", " ", ",", ",", "1">> }

PageEnvs ==
    { EnvWith([GA_MEASUREMENT_ID |-> g, TRACK_SCROLL_DEPTH |-> s, TRACK_TIME_ON_PAGE |-> t]) :
        g \in {Absent, <<"G-1">>}, s \in {Absent, <<"true">>, <<"TRUE">>}, t \in TimeLists }

\* the page has loaded script.min.js: var scrollTracked = {}; var timeTracked = {};
\* var startTime = Date.now()
InitPage ==
    /\ ImagesIdle /\ GenIdle /\ BuildIdle /\ ScanIdle
    /\ config \in PageEnvs
    /\ script = GenerateConversionCode(config)
    /\ ppc = "loaded"
    /\ scrollTracked = {}
    /\ timeTracked = {}
    /\ gtagIsFunction \in BOOLEAN
    /\ clock = 0
    /\ inputs = <<>>
    /\ sent = <<>>

\* lines 480-489: the scroll listener runs for one scroll event
Scroll ==
    /\ ppc = "loaded"
    /\ HasScrollTracker(script)
    /\ Len(inputs) < MaxEvents
    /\ \E scrollPercent \in ScrollPercents :
          LET st == ScrollLoop(1, scrollPercent, gtagIsFunction,
                               [tracked |-> scrollTracked, sent |-> sent])
          IN /\ scrollTracked' = st.tracked
             /\ sent' = st.sent
             /\ inputs' = Append(inputs, [ev |-> "scroll", value |-> scrollPercent])
    /\ UNCHANGED <<ppc, script, timeTracked, gtagIsFunction, clock>>
    /\ UNCHANGED <<config, imgVars, genVars, buildVars, scanVars>>

\* lines 500-509: the interval callback runs once; elapsed never decreases
Tick ==
    /\ ppc = "loaded"
    /\ HasTimeTracker(script)
    /\ Len(inputs) < MaxEvents
    /\ \E elapsed \in clock..MaxElapsed :
          LET st == TimeLoop(TimePointsOf(script), 1, elapsed, gtagIsFunction,
                             [tracked |-> timeTracked, sent |-> sent])
          IN /\ timeTracked' = st.tracked
             /\ sent' = st.sent
             /\ clock' = elapsed
             /\ inputs' = Append(inputs, [ev |-> "tick", value |-> elapsed])
    /\ UNCHANGED <<ppc, script, scrollTracked, gtagIsFunction>>
    /\ UNCHANGED <<config, imgVars, genVars, buildVars, scanVars>>

\* typeof gtag === 'function' changes: the analytics snippet is loaded, or
\* the global is overwritten
GtagChanges ==
    /\ ppc = "loaded"
    /\ gtagIsFunction' = ~gtagIsFunction
    /\ UNCHANGED <<ppc, script, scrollTracked, timeTracked, clock, inputs, sent>>
    /\ UNCHANGED <<config, imgVars, genVars, buildVars, scanVars>>

NextPage == Scroll \/ Tick \/ GtagChanges

SpecPage == InitPage /\ [][NextPage]_vars

\* C9: within one page-load no scroll_depth event is sent twice for the same
\* threshold and no time_on_page event is sent twice for the same entry of the
\* configured list, whatever scroll events and timer ticks happen.
C9_FireOnce ==
    /\ \A i \in DOMAIN ScrollPoints :
          Cardinality({n \in DOMAIN sent : sent[n] = ScrollEvent(ScrollPoints[i])}) <= 1
    /\ HasTimeTracker(script) =>
          \A i \in DOMAIN TimePointsOf(script) :
              Cardinality({n \in DOMAIN sent :
                              sent[n] = TimeEvent(TimePointsOf(script)[i])}) <= 1
    /\ \A n \in DOMAIN sent :
          \/ \E i \in DOMAIN ScrollPoints : sent[n] = ScrollEvent(ScrollPoints[i])
          \/ /\ HasTimeTracker(script)
             /\ \E i \in DOMAIN TimePointsOf(script) : sent[n] = TimeEvent(TimePointsOf(script)[i])

\* C9 witness: the list holds a non-numeric entry and a duplicate; two scroll
\* events past 25 percent and two ticks past second 1 have been handled while
\* gtag was available, and each event has been sent
C9_Witness ==
    /\ HasTimeTracker(script)
    /\ TimePointsOf(script) = <<NullSeconds, Seconds(1), Seconds(1)>>
    /\ Cardinality({n \in DOMAIN inputs : inputs[n].ev = "scroll" /\ inputs[n].value >= 25}) >= 2
    /\ Cardinality({n \in DOMAIN inputs : inputs[n].ev = "tick" /\ inputs[n].value >= 1}) >= 2
    /\ \E n \in DOMAIN sent : sent[n] = ScrollEvent(25)
    /\ \E n \in DOMAIN sent : sent[n] = TimeEvent(Seconds(1))
    /\ \E n \in DOMAIN sent : sent[n] = TimeEvent(NullSeconds)

\* the events handed to gtag in this step
NewlySent == {sent'[n] : n \in (Len(sent) + 1)..Len(sent')}

\* the thresholds a scroll event at scrollPercent crosses for the first time
ScrollCrossed(scrollPercent) ==
    {point \in Range(ScrollPoints) : scrollPercent >= point /\ point \notin scrollTracked}

\* the entries a tick at elapsed reaches for the first time
TimeCrossed(elapsed) ==
    IF HasTimeTracker(script)
    THEN {seconds \in Range(TimePointsOf(script)) :
             TimeReached(elapsed, seconds) /\ seconds \notin timeTracked}
    ELSE {}

FlagSetAtFirstCrossing ==
    /\ Len(sent') >= Len(sent) /\ SubSeq(sent', 1, Len(sent)) = sent
    /\ inputs' = inputs => sent' = sent /\ scrollTracked' = scrollTracked /\ timeTracked' = timeTracked
    /\ inputs' # inputs =>
          LET input == inputs'[Len(inputs')] IN
          IF input.ev = "scroll"
          THEN /\ scrollTracked' = scrollTracked \cup ScrollCrossed(input.value)
               /\ NewlySent = IF gtagIsFunction
                              THEN {ScrollEvent(point) : point \in ScrollCrossed(input.value)}
                              ELSE {}
          ELSE /\ timeTracked' = timeTracked \cup TimeCrossed(input.value)
               /\ NewlySent = IF gtagIsFunction
                              THEN {TimeEvent(seconds) : seconds \in TimeCrossed(input.value)}
                              ELSE {}

\* C20: in every step of a page-load, a scroll event or timer tick sets the
\* flag of each threshold it crosses for the first time whether or not gtag
\* is a function; it reports exactly those thresholds, at that same event,
\* when gtag is a function and reports nothing when it is not; so a
\* threshold whose flag is set is never reported afterwards, also when gtag
\* becomes available later.
C20_FlagSetWithoutGtag == [][FlagSetAtFirstCrossing]_vars

\* C20 witness: 25 percent and second 1 were crossed while gtag was not a
\* function; gtag then became available, later inputs passed both again and
\* reported only the thresholds crossed since
C20_Witness ==
    /\ gtagIsFunction
    /\ Len(inputs) = 4
    /\ inputs[1] = [ev |-> "scroll", value |-> 60]
    /\ inputs[2] = [ev |-> "tick", value |-> 1]
    /\ inputs[3] = [ev |-> "scroll", value |-> 100]
    /\ inputs[4].ev = "tick" /\ inputs[4].value >= 2
    /\ scrollTracked = Range(ScrollPoints)
    /\ {Seconds(1), Seconds(2)} \subseteq timeTracked
    /\ sent = <<ScrollEvent(75), ScrollEvent(90), TimeEvent(Seconds(2))>>

----------------------------------------------------------------------------
(* findSpImages(dir): the recursive scan that collects the SP-Image Set.   *)
(* A file name is a sequence of tokens: a stem, any number of "-sp"        *)
(* tokens and an extension.  A directory is what fs.readdir gives for it:  *)
(* whether the call succeeds, and the entries it returns, in order.        *)

MaxFiles == 3   \* the files of one generated directory
MaxDepth == 2   \* the directory levels below dir

Dir(ok, entries) == [ok |-> ok, entries |-> entries]
FileEntry(name) == [name |-> name, kind |-> "file", sub |-> <<>>]
DirEntry(name, sub) == [name |-> <<name>>, kind |-> "directory", sub |-> sub]
\* a Dirent that is neither a file nor a directory (a symbolic link)
OtherEntry(name) == [name |-> name, kind |-> "other", sub |-> <<>>]

\* readdir fails: the directory is missing or may not be read
NoDir == Dir(FALSE, <<>>)

HeroFile == <<"hero", ".jpg">>
BannerFile == <<"banner", ".jpg">>
BannerSpFile == <<"banner", "-sp", ".jpg">>
BannerSpUpperFile == <<"banner", "-SP", ".jpg">>
PhotoSpFile == <<"photo", "-sp", ".JPEG">>
IconSpSpFile == <<"icon", "-sp", "-sp", ".png">>
LogoSpFile == <<"logo", "-sp", ".gif">>
LinkSpFile == <<"link", "-sp", ".png">>

FileNames == <<HeroFile, BannerFile, BannerSpFile, BannerSpUpperFile, PhotoSpFile, IconSpSpFile, LogoSpFile>>

FileSets == {fs \in SUBSET {FileNames[i] : i \in DOMAIN FileNames} : Cardinality(fs) <= MaxFiles}

\* the entries of a directory that holds the files fs
Files(fs) ==
    LET names == SelectSeq(FileNames, LAMBDA n : n \in fs)
    IN  [i \in DOMAIN names |-> FileEntry(names[i])]

\* src/ of a project: files beside an images/ directory that holds fs, a
\* directory that may not be read, and a directory whose name ends like an
\* SP image
Project(fs) ==
    Dir(TRUE, <<FileEntry(BannerSpFile),
                DirEntry("images/", Dir(TRUE, Files(fs) \o <<OtherEntry(LinkSpFile)>>)),
                DirEntry("private/", NoDir),
                DirEntry("old-sp.png/", Dir(TRUE, <<FileEntry(HeroFile),
                                                    DirEntry("deep/", Dir(TRUE, <<FileEntry(PhotoSpFile)>>))>>))>>)

ScanTrees ==
    {NoDir} \cup {Dir(TRUE, Files(fs)) : fs \in FileSets} \cup {Project(fs) : fs \in FileSets}

ScanLower(tok) ==
    CASE tok = "-SP" -> "-sp"
      [] tok = ".JPEG" -> ".jpeg"
      [] tok = ".JPG" -> ".jpg"
      [] tok = ".PNG" -> ".png"
      [] OTHER -> tok

\* /-sp\.(png|jpe?g)$/i.test(entry.name)
SpTest(name) ==
    /\ Len(name) >= 2
    /\ ScanLower(name[Len(name)]) \in {".png", ".jpg", ".jpeg"}
    /\ ScanLower(name[Len(name) - 1]) = "-sp"

\* a findSpImages that adds the name of the SP file itself
PcNameKept(name) == name

\* entry.name.replace(/-sp(\.(png|jpe?g))$/i, "$1")
PcName(name) ==
    IF SpTest(name) THEN SubSeq(name, 1, Len(name) - 2) \o <<name[Len(name)]>> ELSE name

\* path.relative(dir, path.join(currentDir, pcName)), currentDir being kept
\* as the directory names below dir
RelativePath(currentDir, pcName) == currentDir \o pcName

\* scan(currentDir): readdir inside try; a failure is caught and the call
\* returns at once
Scan(currentDir, node, stack) ==
    IF node.ok
    THEN <<[currentDir |-> currentDir, entries |-> node.entries, i |-> 1]>> \o stack
    ELSE stack

InitSpImages ==
    /\ ImagesIdle /\ GenIdle /\ BuildIdle /\ PageIdle
    /\ config = <<>>
    /\ scanTree \in ScanTrees
    /\ scanStack = <<>>
    /\ scanSet = {}
    /\ spc = "start"

\* const spImages = new Set(); await scan(dir)
CallScan ==
    /\ spc = "start"
    /\ scanStack' = Scan(<<>>, scanTree, <<>>)
    /\ spc' = "scanning"
    /\ UNCHANGED <<scanTree, scanSet>>
    /\ UNCHANGED <<config, imgVars, genVars, buildVars, pageVars>>

\* one turn of for (const entry of entries)
ScanEntry ==
    /\ spc = "scanning"
    /\ scanStack # <<>>
    /\ Head(scanStack).i <= Len(Head(scanStack).entries)
    /\ LET top == Head(scanStack)
           entry == top.entries[top.i]
           next == <<[top EXCEPT !.i = top.i + 1]>> \o Tail(scanStack)
       IN  IF entry.kind = "directory"
           THEN /\ scanStack' = Scan(top.currentDir \o entry.name, entry.sub, next)
                /\ UNCHANGED scanSet
           ELSE /\ scanStack' = next
                /\ scanSet' = IF entry.kind = "file" /\ SpTest(entry.name)
                              THEN scanSet \cup {RelativePath(top.currentDir, PcName(entry.name))}
                              ELSE scanSet
    /\ UNCHANGED <<scanTree, spc>>
    /\ UNCHANGED <<config, imgVars, genVars, buildVars, pageVars>>

\* the loop of one scan call is over: the call returns to its caller
ScanReturn ==
    /\ spc = "scanning"
    /\ scanStack # <<>>
    /\ Head(scanStack).i > Len(Head(scanStack).entries)
    /\ scanStack' = Tail(scanStack)
    /\ UNCHANGED <<scanTree, scanSet, spc>>
    /\ UNCHANGED <<config, imgVars, genVars, buildVars, pageVars>>

\* return spImages
ReturnSpImages ==
    /\ spc = "scanning"
    /\ scanStack = <<>>
    /\ spc' = "returned"
    /\ UNCHANGED <<scanTree, scanStack, scanSet>>
    /\ UNCHANGED <<config, imgVars, genVars, buildVars, pageVars>>

NextSpImages == CallScan \/ ScanEntry \/ ScanReturn \/ ReturnSpImages

SpecSpImages == InitSpImages /\ [][NextSpImages]_vars

----------------------------------------------------------------------------
(* Claims about findSpImages *)

\* the directories of a tree, level by level, each with its path below dir
SubDirs(d) ==
    IF d.node.ok
    THEN {[path |-> d.path \o d.node.entries[i].name, node |-> d.node.entries[i].sub] :
            i \in {j \in DOMAIN d.node.entries : d.node.entries[j].kind = "directory"}}
    ELSE {}

RECURSIVE DirsAt(_, _)
DirsAt(tree, level) ==
    IF level = 0 THEN {[path |-> <<>>, node |-> tree]}
    ELSE UNION {SubDirs(d) : d \in DirsAt(tree, level - 1)}

\* the regular files scan can reach: [dir, name]
FoundFiles(tree) ==
    UNION {IF d.node.ok
           THEN {[dir |-> d.path, name |-> d.node.entries[i].name] :
                   i \in {j \in DOMAIN d.node.entries : d.node.entries[j].kind = "file"}}
           ELSE {} : d \in UNION {DirsAt(tree, level) : level \in 0..MaxDepth}}

IsImageExt(tok) == tok \in {".png", ".PNG", ".jpg", ".JPG", ".jpeg", ".JPEG"}
IsSpToken(tok) == tok \in {"-sp", "-SP"}

\* the found files whose name ends in -sp and an image extension
FoundSpFiles(tree) ==
    {f \in FoundFiles(tree) :
        /\ Len(f.name) >= 2
        /\ IsImageExt(f.name[Len(f.name)])
        /\ IsSpToken(f.name[Len(f.name) - 1])}

\* the name without the one "-sp" that stands before its extension
WithoutLastSp(name) == [i \in 1..(Len(name) - 1) |-> IF i = Len(name) - 1 THEN name[Len(name)] ELSE name[i]]

\* C19 (as amended): when findSpImages returns, its set is exactly the set
\* of paths got from the found files that end in -sp and .png, .jpg or
\* .jpeg (in either case) by removing that one "-sp": no entry comes from a
\* file without the suffix, from a directory or from another kind of entry;
\* hero.jpg, banner.jpg and banner-sp.jpg give exactly {banner.jpg}; and a
\* directory that cannot be read gives no entry and no error, so that a
\* missing dir gives the empty set.
C19_SpImageSet ==
    spc = "returned" =>
        /\ scanSet = {f.dir \o WithoutLastSp(f.name) : f \in FoundSpFiles(scanTree)}
        /\ (scanTree = Dir(TRUE, Files({HeroFile, BannerFile, BannerSpFile})) => scanSet = {BannerFile})
        /\ (~scanTree.ok => scanSet = {})

C19_Witness ==
    /\ spc = "returned"
    /\ scanTree = Project({HeroFile, BannerSpUpperFile, IconSpSpFile})
    /\ scanSet = {BannerFile, <<"images/">> \o BannerFile, <<"images/", "icon", "-sp", ".png">>,
                  <<"old-sp.png/", "deep/", "photo", ".JPEG">>}

\* C19 as stated: no entry carries "-sp" before its extension, and the set
\* has exactly one entry for each found file with the suffix
C19_SpImageSetAsStated ==
    spc = "returned" =>
        /\ \A e \in scanSet : ~(Len(e) >= 2 /\ IsSpToken(e[Len(e) - 1]))
        /\ Cardinality(scanSet) = Cardinality(FoundSpFiles(scanTree))
        /\ \A f \in FoundSpFiles(scanTree) : f.dir \o WithoutLastSp(f.name) \in scanSet
        /\ (scanTree = Dir(TRUE, Files({HeroFile, BannerFile, BannerSpFile})) => scanSet = {BannerFile})
        /\ (~scanTree.ok => scanSet = {})

=============================================================================
